---- MODULE Spec2Model ----
(***************************************************************************)
(* A model of chenc::big_int::big_uint (src/big_uint.hpp): an unsigned     *)
(* multi-precision integer held as a little-endian vector of limbs, and of *)
(* chenc::big_int::fraction (src/fraction.hpp): a signed rational of two   *)
(* big_uint magnitudes with a precision bound.                             *)
(*                                                                         *)
(* A big_uint is modelled as the sequence data_ of its limbs; data_[0] of  *)
(* the source is element 1 of the sequence.  Every operator below is the   *)
(* limb-level algorithm of the source, loop by loop.                       *)
(*                                                                         *)
(* Limb width.  The source uses 32-bit limbs and 64-bit intermediates.     *)
(* TLC's integers are 32 bits wide, so the model runs the same algorithms  *)
(* on limbs of LimbBits bits with intermediates of 2*LimbBits bits         *)
(* (uint32_t -> one limb, uint64_t -> two limbs).  Every quantity that the *)
(* source derives from the limb width is derived from LimbBits here in the *)
(* same proportion: UINT32_MAX, the "+ 32" guard of the Newton-Raphson     *)
(* precision (one limb), the 10^9 chunk of the decimal printer (largest    *)
(* power of ten in a limb), the gcd bit gap 24 (three quarters of a limb). *)
(* Limb counts (the two-limb native fast paths, the Karatsuba thresholds   *)
(* 128 and 64) are kept as in the source.                                  *)
(*                                                                         *)
(* Loops.  A loop of the source is a recursive operator that carries the   *)
(* loop's variables in one record.  A counted loop over the limbs lo..hi   *)
(* runs its steps in order, lower half of the range first.                 *)
(***************************************************************************)
EXTENDS Integers, Sequences, FiniteSets, TLC

VARIABLES x, y, n, op, out

vars == <<x, y, n, op, out>>

\* width of one limb in bits (32 in the source)
LimbBits == 8

\* ------------------------------------------------------------------------
\* native integer helpers
\* ------------------------------------------------------------------------

RECURSIVE Pow2(_)
Pow2(k) == IF k <= 0 THEN 1 ELSE 2 * Pow2(k - 1)

RECURSIVE IPow(_, _)
IPow(b, k) == IF k <= 0 THEN 1 ELSE b * IPow(b, k - 1)

Max(i, j) == IF i > j THEN i ELSE j

Min(i, j) == IF i < j THEN i ELSE j

\* one past the largest limb value (2^32 in the source)
Radix == Pow2(LimbBits)

UINT32_MAX == Radix - 1

\* one past the largest uint64_t of the model (two limbs)
U64 == Radix * Radix

\* the first k values of f as a sequence
RECURSIVE ToSeq(_, _)
ToSeq(f, k) == IF k <= 0 THEN <<>> ELSE Append(ToSeq(f, k - 1), f[k])

\* TRUE, once v has been computed: a loop's state is computed before the
\* loop's next step starts
Done(v) == v = v

\* k zero limbs
RECURSIVE Zeros(_)
Zeros(k) ==
    IF k <= 0 THEN <<>>
    ELSE IF k = 1 THEN <<0>>
    ELSE Zeros(k \div 2) \o Zeros(k - (k \div 2))

\* the number of significant bits of a limb: one more than the top bit's index
RECURSIVE bit_length(_)
bit_length(v) == IF v = 0 THEN 0 ELSE 1 + bit_length(v \div 2)

\* tools::highest_bit_index: position of the most significant set bit, 0 for 0
RECURSIVE highest_bit_index(_)
highest_bit_index(v) == IF v <= 1 THEN 0 ELSE 1 + highest_bit_index(v \div 2)

\* tools::bit_count (popcount) of one limb
RECURSIVE limb_bit_count(_)
limb_bit_count(v) == IF v = 0 THEN 0 ELSE (v % 2) + limb_bit_count(v \div 2)

\* ------------------------------------------------------------------------
\* construction, observers, comparison
\* ------------------------------------------------------------------------

\* big_uint::trim: drop leading zero limbs, keep at least one limb
RECURSIVE trim(_)
trim(d) ==
    IF Len(d) >= 2 /\ d[Len(d)] = 0 THEN trim(SubSeq(d, 1, Len(d) - 1)) ELSE d

\* big_uint(const T &value) for an unsigned native value (at most uint64_t)
from_u64(v) ==
    IF v > UINT32_MAX
    THEN <<v % Radix, (v \div Radix) % Radix>>
    ELSE <<v % Radix>>

\* big_uint::operator T() for a native integer: the low 64 bits
to_u64(d) == d[1] + (IF Len(d) >= 2 THEN d[2] * Radix ELSE 0)

is_zero(d) == Len(d) = 1 /\ d[Len(d)] = 0

is_one(d) == Len(d) = 1 /\ d[Len(d)] = 1

\* big_uint::bits
bits(d) ==
    IF d[Len(d)] = 0 THEN 0
    ELSE (Len(d) - 1) * LimbBits + highest_bit_index(d[Len(d)])

blocks(d) == Len(d)

RECURSIVE bit_count_from(_, _)
bit_count_from(d, i) ==
    IF i > Len(d) THEN 0 ELSE limb_bit_count(d[i]) + bit_count_from(d, i + 1)

\* big_uint::bit_count
bit_count(d) == bit_count_from(d, 1)

\* big_uint::bit_test
bit_test(d, index) ==
    ((d[(index \div LimbBits) + 1] \div Pow2(index % LimbBits)) % 2) = 1

RECURSIVE tz_loop(_, _)
tz_loop(d, i) ==
    IF i < bits(d) /\ ~bit_test(d, i) THEN tz_loop(d, i + 1) ELSE i

\* big_uint::bit_trailing_zero_count
bit_trailing_zero_count(d) == IF is_zero(d) THEN 0 ELSE tz_loop(d, 0)

\* big_uint::operator==
Equal(a, b) == Len(a) = Len(b) /\ \A i \in 1..Len(a) : a[i] = b[i]

\* the limbs at which a and b, of one length, differ
differing(a, b) == {i \in 1..Len(a) : a[i] # b[i]}

\* operator<'s loop from the top limb down: the first differing limb decides
less_at(a, b, differ) ==
    differ # {} /\ \E i \in differ : (\A j \in differ : j <= i) /\ a[i] < b[i]

\* big_uint::operator<
Less(a, b) ==
    IF Len(a) # Len(b) THEN Len(a) < Len(b) ELSE less_at(a, b, differing(a, b))

Greater(a, b) == Less(b, a)

LessEq(a, b) == ~Greater(a, b)

GreaterEq(a, b) == ~Less(a, b)

\* ------------------------------------------------------------------------
\* shifts
\* ------------------------------------------------------------------------

\* the part of limb i of d that operator<< leaves in its own result limb
shl_low(d, i, sb) ==
    IF i >= 1 /\ i <= Len(d) THEN (d[i] * Pow2(sb)) % Radix ELSE 0

\* the part of limb i of d that operator<< moves to the next result limb
shl_high(d, i, sb) ==
    IF sb # 0 /\ i >= 1 /\ i <= Len(d) THEN d[i] \div Pow2(LimbBits - sb) ELSE 0

\* operator<<'s result vector of `size` limbs: limb j is the OR of the low
\* part of data_[j - shift_blocks] and the high part of
\* data_[j - shift_blocks - 1]; the parts share no bit, so the OR is a sum
shl_limbs(d, shift_blocks, sb, size) ==
    ToSeq([j \in 1..size |->
              shl_low(d, j - shift_blocks, sb) + shl_high(d, j - shift_blocks - 1, sb)],
          size)

\* big_uint::operator<<
ShiftLeft(d, shift_bits) ==
    IF shift_bits = 0 \/ is_zero(d) THEN d
    ELSE trim(shl_limbs(d, shift_bits \div LimbBits, shift_bits % LimbBits,
                        Len(d) + (shift_bits \div LimbBits) + 1))

\* the part of limb i of d that operator>> leaves in its own result limb
shr_low(d, i, sb) ==
    IF i >= 1 /\ i <= Len(d) THEN d[i] \div Pow2(sb) ELSE 0

\* the bits that leave limb i at its low end are dropped
shr_high_dropped(d, i, sb) == 0

\* the part of limb i of d that operator>> moves to the previous result limb
shr_high(d, i, sb) ==
    IF sb # 0 /\ i >= 1 /\ i <= Len(d) THEN (d[i] * Pow2(LimbBits - sb)) % Radix ELSE 0

shr_limbs(d, shift_blocks, sb, size) ==
    ToSeq([j \in 1..size |->
              shr_low(d, j + shift_blocks, sb) + shr_high(d, j + shift_blocks + 1, sb)],
          size)

\* big_uint::operator>>
ShiftRight(d, shift_bits) ==
    IF shift_bits = 0 \/ is_zero(d) THEN d
    ELSE IF shift_bits \div LimbBits >= Len(d) THEN from_u64(0)
    ELSE trim(shr_limbs(d, shift_bits \div LimbBits, shift_bits % LimbBits,
                        Len(d) - (shift_bits \div LimbBits) + 1))

\* ------------------------------------------------------------------------
\* addition and subtraction
\* ------------------------------------------------------------------------

\* operator+=, first loop: add other's limbs lo..hi with carry
RECURSIVE add_loop1(_, _, _, _)
add_loop1(s, b, lo, hi) ==
    IF lo > hi \/ ~Done(s) THEN s
    ELSE IF lo = hi
    THEN [d |-> [s.d EXCEPT ![lo] = (s.d[lo] + b[lo] + s.carry) % Radix],
          i |-> lo + 1,
          carry |-> (s.d[lo] + b[lo] + s.carry) \div Radix]
    ELSE add_loop1(add_loop1(s, b, lo, (lo + hi) \div 2), b,
                   ((lo + hi) \div 2) + 1, hi)

\* operator+=, second loop: ripple the carry through this's own limbs
RECURSIVE add_loop2(_, _)
add_loop2(s, original_size) ==
    IF s.carry # 0 /\ s.i <= original_size
    THEN add_loop2([d |-> [s.d EXCEPT ![s.i] = (s.d[s.i] + s.carry) % Radix],
                    i |-> s.i + 1,
                    carry |-> (s.d[s.i] + s.carry) \div Radix], original_size)
    ELSE s

\* operator+=, after the loops: store the last carry, trim
add_finish(s) ==
    trim(IF s.carry # 0 THEN [s.d EXCEPT ![s.i] = s.carry % Radix] ELSE s.d)

\* big_uint::operator+=
AddAssign(a, b) ==
    IF is_zero(b) THEN a
    ELSE add_finish(add_loop2(
             add_loop1([d |-> a \o Zeros(Max(Len(a), Len(b)) + 1 - Len(a)),
                        i |-> 1, carry |-> 0],
                       b, 1, Len(b)),
             Len(a)))

\* operator+ without the final trim of operator+=: the spare top limb stays
add_keep_spare(a, b) ==
    IF Len(a) > Len(b) THEN a \o Zeros(1) ELSE b \o Zeros(1)

\* big_uint::operator+
Add(a, b) ==
    IF Len(a) > Len(b) THEN AddAssign(a, b) ELSE AddAssign(b, a)

\* the uint64_t difference of operator-=, which wraps
sub_diff(v) == v % U64

\* operator-=, first loop: subtract other's limbs lo..hi with borrow
RECURSIVE sub_loop1(_, _, _, _)
sub_loop1(s, b, lo, hi) ==
    IF lo > hi \/ ~Done(s) THEN s
    ELSE IF lo = hi
    THEN [d |-> [s.d EXCEPT ![lo] = sub_diff(s.d[lo] - b[lo] - s.borrow) % Radix],
          i |-> lo + 1,
          borrow |-> (sub_diff(s.d[lo] - b[lo] - s.borrow) \div Radix) % 2]
    ELSE sub_loop1(sub_loop1(s, b, lo, (lo + hi) \div 2), b,
                   ((lo + hi) \div 2) + 1, hi)

\* operator-=, second loop: ripple the borrow
RECURSIVE sub_loop2(_)
sub_loop2(s) ==
    IF s.borrow # 0 /\ s.i <= Len(s.d)
    THEN sub_loop2([d |-> [s.d EXCEPT ![s.i] = sub_diff(s.d[s.i] - s.borrow) % Radix],
                    i |-> s.i + 1,
                    borrow |-> (sub_diff(s.d[s.i] - s.borrow) \div Radix) % 2])
    ELSE s

\* big_uint::operator-=
SubAssign(a, b) ==
    IF Less(a, b) THEN <<0>>
    ELSE trim(sub_loop2(sub_loop1([d |-> a, i |-> 1, borrow |-> 0],
                                  b, 1, Len(b))).d)

\* big_uint::operator-
Sub(a, b) == SubAssign(a, b)

\* big_uint::operator++
Inc(a) == AddAssign(a, from_u64(1))

\* operator-- that wraps around at zero instead of saturating
dec_wrapping(a) == IF is_zero(a) THEN <<UINT32_MAX>> ELSE SubAssign(a, from_u64(1))

\* big_uint::operator--
Dec(a) == SubAssign(a, from_u64(1))

\* ------------------------------------------------------------------------
\* multiplication
\* ------------------------------------------------------------------------

\* switch of operator*= to Karatsuba: sum of the limb counts above this
karatsuba_switch == 128

\* multiply_karatsuba hands operands of at most this many limbs to the
\* schoolbook routine
karatsuba_small == 64

\* multiply_default, inner loop for the limb a[i] = ai: the steps j in
\* lo..hi that read a limb of b
RECURSIVE mul_inner(_, _, _, _, _, _)
mul_inner(s, ai, b, i, lo, hi) ==
    IF lo > hi \/ ~Done(s) THEN s
    ELSE IF lo = hi
    THEN [result |-> [s.result EXCEPT ![i + lo - 1] =
                         (s.carry + ai * b[lo] + s.result[i + lo - 1]) % Radix],
          carry |-> (s.carry + ai * b[lo] + s.result[i + lo - 1]) \div Radix]
    ELSE mul_inner(mul_inner(s, ai, b, i, lo, (lo + hi) \div 2), ai, b, i,
                   ((lo + hi) \div 2) + 1, hi)

\* multiply_default, inner loop, the steps past b's last limb: while carry > 0
RECURSIVE mul_carry(_, _)
mul_carry(s, k) ==
    IF s.carry > 0
    THEN mul_carry([result |-> [s.result EXCEPT ![k] = (s.carry + s.result[k]) % Radix],
                    carry |-> (s.carry + s.result[k]) \div Radix], k + 1)
    ELSE s

\* multiply_default, one pass of the outer loop: the limb a[i]
mul_row(result, a, b, i) ==
    IF a[i] = 0 THEN result
    ELSE mul_carry(mul_inner([result |-> result, carry |-> 0], a[i], b, i, 1, Len(b)),
                   i + Len(b)).result

\* multiply_default, outer loop over the limbs lo..hi of a
RECURSIVE mul_outer(_, _, _, _, _)
mul_outer(result, a, b, lo, hi) ==
    IF lo > hi \/ ~Done(result) THEN result
    ELSE IF lo = hi THEN mul_row(result, a, b, lo)
    ELSE mul_outer(mul_outer(result, a, b, lo, (lo + hi) \div 2), a, b,
                   ((lo + hi) \div 2) + 1, hi)

\* big_uint::multiply_default (schoolbook)
multiply_default(a, b) ==
    IF is_zero(a) \/ is_zero(b) THEN from_u64(0)
    ELSE IF is_one(a) THEN b
    ELSE IF is_one(b) THEN a
    ELSE trim(mul_outer(Zeros(Len(a) + Len(b)), a, b, 1, Len(a)))

\* the low half of multiply_karatsuba's split: limbs [0, min(half, size))
low_half(d, half) == trim(SubSeq(d, 1, Min(half, Len(d))))

\* a high half that starts one limb too far
high_half_shifted(d, half) ==
    IF half + 1 < Len(d) THEN trim(SubSeq(d, half + 2, Len(d))) ELSE <<0, 0>>

\* the high half: limbs [half, size); when there are none, the default
\* constructor's limb 0 and the one more that push_back(0) adds
high_half(d, half) ==
    IF half < Len(d) THEN trim(SubSeq(d, half + 1, Len(d))) ELSE <<0, 0>>

\* multiply_karatsuba's "a += z << (k limbs)", skipped when z is zero
add_shifted(a, z, k) ==
    IF ~is_zero(z) THEN AddAssign(a, Zeros(k) \o z) ELSE a

\* multiply_karatsuba, the result z0 + (z1 << half) + (z2 << 2 * half)
karatsuba_combine(z0, z1, z2, half) ==
    trim(add_shifted(add_shifted(z0, z1, half), z2, 2 * half))

\* multiply_karatsuba, z1 = (a_low + a_high) * (b_low + b_high) - z0 - z2
karatsuba_middle(z0, z2, product, half) ==
    karatsuba_combine(z0, SubAssign(SubAssign(product, z0), z2), z2, half)

RECURSIVE multiply_karatsuba(_, _)
RECURSIVE MulAssign(_, _)

\* multiply_karatsuba, the three sub-products, each through operator*=
karatsuba_products(a_low, a_high, b_low, b_high, half) ==
    karatsuba_middle(MulAssign(a_low, b_low),
                     MulAssign(a_high, b_high),
                     MulAssign(AddAssign(a_low, a_high), AddAssign(b_low, b_high)),
                     half)

\* multiply_karatsuba, the split of both operands at `half` limbs
karatsuba_split(a, b, half) ==
    karatsuba_products(low_half(a, half), high_half(a, half),
                       low_half(b, half), high_half(b, half), half)

\* big_uint::multiply_karatsuba
multiply_karatsuba(a, b) ==
    IF is_zero(a) \/ is_zero(b) THEN from_u64(0)
    ELSE IF is_one(a) THEN b
    ELSE IF is_one(b) THEN a
    ELSE IF Max(blocks(a), blocks(b)) <= karatsuba_small THEN multiply_default(a, b)
    ELSE karatsuba_split(a, b, (Max(blocks(a), blocks(b)) + 1) \div 2)

\* big_uint::operator*=
MulAssign(a, b) ==
    IF is_zero(b) \/ is_zero(a) THEN from_u64(0)
    ELSE IF is_one(b) THEN a
    ELSE IF is_one(a) THEN b
    ELSE IF Len(a) + Len(b) > karatsuba_switch THEN multiply_karatsuba(a, b)
    ELSE multiply_default(a, b)

\* big_uint::operator*
Mul(a, b) == MulAssign(a, b)

\* ------------------------------------------------------------------------
\* division
\* ------------------------------------------------------------------------

\* the outcome of a call: the exception it raised ("none" when it returned)
\* and the value it returned
Returned(v) == [thrown |-> "none", val |-> v]

Raised(e) == [thrown |-> e, val |-> <<>>]

\* division_default, the branch pruning at the end of one pass: both
\* temporaries move right by temp_bits, or by 1
default_shift(s, temp_bits) ==
    [quotient |-> s.quotient, remainder |-> s.remainder,
     temp_divisor |-> ShiftRight(s.temp_divisor, temp_bits),
     temp_quotient |-> ShiftRight(s.temp_quotient, temp_bits)]

default_prune(s) ==
    default_shift(s, IF bits(s.temp_divisor) > bits(s.remainder)
                     THEN bits(s.temp_divisor) - bits(s.remainder) ELSE 1)

\* a subtraction step that needs remainder > temp_divisor
default_subtract_strict(s) ==
    IF Greater(s.remainder, s.temp_divisor)
    THEN [quotient |-> AddAssign(s.quotient, s.temp_quotient),
          remainder |-> SubAssign(s.remainder, s.temp_divisor),
          temp_divisor |-> s.temp_divisor, temp_quotient |-> s.temp_quotient]
    ELSE s

\* division_default, the subtraction at the start of one pass
default_subtract(s) ==
    IF GreaterEq(s.remainder, s.temp_divisor)
    THEN [quotient |-> AddAssign(s.quotient, s.temp_quotient),
          remainder |-> SubAssign(s.remainder, s.temp_divisor),
          temp_divisor |-> s.temp_divisor, temp_quotient |-> s.temp_quotient]
    ELSE s

\* division_default, the loop: while (!temp_quotient.is_zero())
RECURSIVE division_default_loop(_)
division_default_loop(s) ==
    IF is_zero(s.temp_quotient) THEN [q |-> s.quotient, r |-> s.remainder]
    ELSE division_default_loop(default_prune(default_subtract(s)))

\* big_uint::division_default (schoolbook long division)
division_default(dividend, divisor) ==
    IF is_zero(dividend) THEN [q |-> from_u64(0), r |-> from_u64(0)]
    ELSE IF is_zero(divisor) THEN [q |-> from_u64(0), r |-> dividend]
    ELSE IF is_one(divisor) THEN [q |-> dividend, r |-> from_u64(0)]
    ELSE IF Less(dividend, divisor) THEN [q |-> from_u64(0), r |-> dividend]
    ELSE division_default_loop(
             [quotient |-> from_u64(0), remainder |-> dividend,
              temp_divisor |-> ShiftLeft(divisor, bits(dividend) - bits(divisor)),
              temp_quotient |-> ShiftLeft(from_u64(1), bits(dividend) - bits(divisor))])

\* division_newton_raphson: term = (twoB > t) ? (twoB - t) : 0
newton_term(twoB, t) == IF Greater(twoB, t) THEN Sub(twoB, t) ELSE from_u64(0)

\* a pass that rounds the new estimate up instead of truncating it
newton_step_rounded_up(xr, divisor, twoB, kbits) ==
    Inc(ShiftRight(MulAssign(xr, newton_term(twoB, Mul(divisor, xr))), kbits))

\* division_newton_raphson, one pass of the reciprocal iteration:
\*   t = divisor * x; x *= term; x >>= kbits
newton_step(xr, divisor, twoB, kbits) ==
    ShiftRight(MulAssign(xr, newton_term(twoB, Mul(divisor, xr))), kbits)

RECURSIVE newton_loop(_, _, _, _)

\* the loop test: while (x != prev_x)
newton_again(prev_x, xr, divisor, twoB, kbits) ==
    IF ~Equal(xr, prev_x) THEN newton_loop(xr, divisor, twoB, kbits) ELSE xr

\* division_newton_raphson, the reciprocal iteration (a do-while loop)
newton_loop(xr, divisor, twoB, kbits) ==
    newton_again(xr, newton_step(xr, divisor, twoB, kbits), divisor, twoB, kbits)

\* no quotient correction at all
correction_skipped(qr, divisor) == qr

\* division_newton_raphson, the quotient correction
\*   while (remainder >= divisor) { ++quotient; remainder -= divisor; }
RECURSIVE correction_loop(_, _)
correction_loop(qr, divisor) ==
    IF GreaterEq(qr.r, divisor)
    THEN correction_loop([q |-> Inc(qr.q), r |-> SubAssign(qr.r, divisor)], divisor)
    ELSE qr

\* the fixed-point precision of division_newton_raphson (bits() + 32 in the
\* source: one limb of guard bits)
newton_kbits(dividend) == bits(dividend) + LimbBits

\* the initial reciprocal estimate x0
newton_x0(kbits, divisor) ==
    IF kbits - bits(divisor) > 0 THEN ShiftLeft(from_u64(1), kbits - bits(divisor))
    ELSE from_u64(1)

\* division_newton_raphson: qd = quotient * divisor; remainder = dividend - qd;
\* then the correction
newton_remainder(dividend, divisor, quotient) ==
    correction_loop([q |-> quotient, r |-> Sub(dividend, Mul(quotient, divisor))],
                    divisor)

\* division_newton_raphson: quotient = (dividend * x) >> kbits
newton_quotient(dividend, divisor, xr, kbits) ==
    newton_remainder(dividend, divisor, ShiftRight(Mul(dividend, xr), kbits))

\* division_newton_raphson past its early returns, with precision kbits
newton_divide(dividend, divisor, kbits) ==
    newton_quotient(dividend, divisor,
                    newton_loop(newton_x0(kbits, divisor), divisor,
                                ShiftLeft(ShiftLeft(from_u64(1), kbits), 1), kbits),
                    kbits)

\* the native 64-bit division of the fast paths
native_divide(a, b) ==
    [q |-> from_u64(to_u64(a) \div to_u64(b)), r |-> from_u64(to_u64(a) % to_u64(b))]

\* big_uint::division_newton_raphson
division_newton_raphson(dividend, divisor) ==
    IF Less(dividend, divisor) THEN [q |-> from_u64(0), r |-> dividend]
    ELSE IF blocks(dividend) <= 2 /\ blocks(divisor) <= 2
    THEN native_divide(dividend, divisor)
    ELSE newton_divide(dividend, divisor, newton_kbits(dividend))

\* an operator/ that returns zero for a zero divisor, as operator% does
divide_silently(a, b) ==
    IF is_zero(a) \/ is_zero(b) THEN Returned(from_u64(0))
    ELSE IF Len(a) <= 2 /\ Len(b) <= 2 THEN Returned(native_divide(a, b).q)
    ELSE Returned(division_newton_raphson(a, b).q)

\* big_uint::operator/
Div(a, b) ==
    IF is_zero(b) THEN Raised("division_by_zero")
    ELSE IF is_zero(a) THEN Returned(from_u64(0))
    ELSE IF is_one(b) THEN Returned(a)
    ELSE IF Len(a) <= 2 /\ Len(b) <= 2 THEN Returned(native_divide(a, b).q)
    ELSE Returned(division_newton_raphson(a, b).q)

\* big_uint::operator%
Mod(a, b) ==
    IF is_zero(a) \/ is_zero(b) THEN Returned(from_u64(0))
    ELSE IF Len(a) <= 2 /\ Len(b) <= 2 THEN Returned(native_divide(a, b).r)
    ELSE Returned(division_newton_raphson(a, b).r)

\* the outcome of big_uint::div: the exception, or quotient and remainder
div_result(qr) == [thrown |-> "none", q |-> qr.q, r |-> qr.r]

\* big_uint::div
div(dividend, divisor) ==
    IF is_zero(divisor)
    THEN [thrown |-> "division_by_zero", q |-> <<>>, r |-> <<>>]
    ELSE IF is_zero(dividend)
    THEN div_result([q |-> from_u64(0), r |-> dividend])
    ELSE IF is_one(divisor)
    THEN div_result([q |-> dividend, r |-> from_u64(0)])
    ELSE IF Len(dividend) <= 2 /\ Len(divisor) <= 2
    THEN div_result(native_divide(dividend, divisor))
    ELSE div_result(division_newton_raphson(dividend, divisor))

\* ------------------------------------------------------------------------
\* gcd, lcm, pow
\* ------------------------------------------------------------------------

\* gcd switches from subtraction to modulo above this bit gap (24 in the
\* source: three quarters of a limb)
bit_diff_threshold == (3 * LimbBits) \div 4

\* gcd, the reduction of the larger value gy by the smaller gx:
\*   if (y.bits() > x.bits() + bit_diff_threshold) y %= x; else y -= x;
gcd_reduce(gx, gy) ==
    IF bits(gy) > bits(gx) + bit_diff_threshold THEN Mod(gy, gx).val
    ELSE SubAssign(gy, gx)

RECURSIVE gcd_loop(_, _)

\* gcd, one pass once y has lost its factors of two: if (x > y) x.swap(y)
gcd_pass(gx, gy) ==
    IF Greater(gx, gy) THEN gcd_loop(gy, gcd_reduce(gy, gx))
    ELSE gcd_loop(gx, gcd_reduce(gx, gy))

\* gcd, the loop: while (!x.is_zero())
gcd_loop(gx, gy) ==
    IF is_zero(gx) THEN gy
    ELSE gcd_pass(gx, ShiftRight(gy, bit_trailing_zero_count(gy)))

\* gcd, once the common factors of two are counted
gcd_shifted(gx, gy, common_shift) ==
    ShiftLeft(gcd_loop(ShiftRight(gx, bit_trailing_zero_count(gx)), gy), common_shift)

gcd_common(a, b, shift_count) ==
    gcd_shifted(ShiftRight(a, shift_count), ShiftRight(b, shift_count), shift_count)

\* big_uint::gcd
gcd(a, b) ==
    IF is_zero(a) THEN b
    ELSE IF is_zero(b) THEN a
    ELSE gcd_common(a, b, Min(bit_trailing_zero_count(a), bit_trailing_zero_count(b)))

\* big_uint::lcm: a * b / gcd(a, b)
lcm(a, b) == Div(Mul(a, b), gcd(a, b))

\* pow, the square-and-multiply loop
RECURSIVE pow_loop(_)
pow_loop(s) ==
    IF s.exp > 0
    THEN pow_loop([result |-> IF s.exp % 2 = 1 THEN MulAssign(s.result, s.base)
                              ELSE s.result,
                   base |-> MulAssign(s.base, s.base),
                   exp |-> s.exp \div 2])
    ELSE s.result

\* big_uint::pow
pow(a, b) ==
    IF b = 0 THEN from_u64(1)
    ELSE IF Equal(a, from_u64(0)) THEN from_u64(0)
    ELSE IF b = 1 THEN a
    ELSE IF bit_count(a) = 1 THEN ShiftLeft(a, (b - 1) * bits(a))
    ELSE pow_loop([result |-> from_u64(1), base |-> a, exp |-> b])

\* ------------------------------------------------------------------------
\* strings: a string is the sequence of its characters
\* ------------------------------------------------------------------------

\* to_string_template's digit alphabet
base_chars ==
    <<"0", "1", "2", "3", "4", "5", "6", "7", "8", "9",
      "a", "b", "c", "d", "e", "f", "g", "h", "i", "j",
      "k", "l", "m", "n", "o", "p", "q", "r", "s", "t",
      "u", "v", "w", "x", "y", "z">>

upper_chars ==
    <<"A", "B", "C", "D", "E", "F", "G", "H", "I", "J", "K", "L", "M",
      "N", "O", "P", "Q", "R", "S", "T", "U", "V", "W", "X", "Y", "Z">>

\* from_str's table chars_base: the value of a digit character, 99 otherwise
chars_base(c) ==
    IF \E i \in 1..Len(base_chars) : base_chars[i] = c
    THEN (CHOOSE i \in 1..Len(base_chars) : base_chars[i] = c) - 1
    ELSE IF \E i \in 1..Len(upper_chars) : upper_chars[i] = c
    THEN (CHOOSE i \in 1..Len(upper_chars) : upper_chars[i] = c) + 9
    ELSE 99

\* from_str's test of one character
invalid_char(c, base) == chars_base(c) >= 99 \/ chars_base(c) < 0 \/ chars_base(c) >= base

\* from_str's block_len: the number of base-b digits of one chunk
RECURSIVE block_len_loop(_, _, _)
block_len_loop(nn, i, base) ==
    IF nn <= UINT32_MAX \div base THEN block_len_loop(nn * base, i + 1, base)
    ELSE i

block_len(base) == block_len_loop(base, 1, base)

\* from_str's base_power: base^block_len
base_power(base) == IPow(base, block_len(base))

\* from_str, the inner loop that reads one chunk of at most len characters
RECURSIVE chunk_scan(_, _, _, _)
chunk_scan(s, str, base, len) ==
    IF s.chars_processed < len /\ s.i + s.chars_processed <= Len(str)
       /\ ~invalid_char(str[s.i + s.chars_processed], base)
    THEN chunk_scan([i |-> s.i, chars_processed |-> s.chars_processed + 1,
                     chunk_value |-> (s.chunk_value * base
                                      + chars_base(str[s.i + s.chars_processed])) % U64],
                    str, base, len)
    ELSE s

\* from_str: the power the result is multiplied by after a chunk
chunk_power(chars_processed, base) ==
    IF chars_processed = block_len(base) THEN base_power(base)
    ELSE IPow(base, chars_processed)

RECURSIVE from_str_loop(_, _, _, _)

\* from_str, what follows the scan of one chunk
from_str_chunk(result, str, sc, base) ==
    IF sc.chars_processed > 0
    THEN from_str_loop(AddAssign(MulAssign(result,
                                           from_u64(chunk_power(sc.chars_processed, base))),
                                 from_u64(sc.chunk_value % Radix)),
                       str, sc.i + sc.chars_processed, base)
    ELSE from_str_loop(result, str, sc.i + 1, base)

\* from_str, the outer loop over the string, left to right
from_str_loop(result, str, i, base) ==
    IF i > Len(str) \/ ~Done(result) THEN result
    ELSE from_str_chunk(result, str,
                        chunk_scan([i |-> i, chars_processed |-> 0, chunk_value |-> 0],
                                   str, base, block_len(base)),
                        base)

\* big_uint::from_str<base>
from_str(str, base) ==
    IF base < 2 \/ base > 36 THEN from_u64(0)
    ELSE IF \E i \in 1..Len(str) : invalid_char(str[i], base) THEN from_u64(0)
    ELSE from_str_loop(from_u64(0), str, 1, base)

\* big_uint(const std::string_view &str, const uint64_t &base)
big_uint_str(str, base) ==
    IF base < 2 \/ base > 36 THEN Raised("invalid_argument")
    ELSE Returned(from_str(str, base))

\* the digits of a native value, most significant first, no padding
\*   do { push(value % base); value /= base; } while (value > 0); reverse
RECURSIVE native_digits(_, _)
native_digits(value, base) ==
    IF value < base THEN <<base_chars[value + 1]>>
    ELSE Append(native_digits(value \div base, base), base_chars[(value % base) + 1])

\* the digits of a chunk without the padding to `width` digits
unpadded_digits(value, base, width) == native_digits(value, base)

\* the low `width` digits of a native value, most significant first
\*   for (j = 0; j < width; ++j) { push(value % base); value /= base; } reverse
RECURSIVE fixed_digits(_, _, _)
fixed_digits(value, base, width) ==
    IF width = 0 THEN <<>>
    ELSE Append(fixed_digits(value \div base, base, width - 1),
                base_chars[(value % base) + 1])

\* to_string_template's optimal_digits: digits per chunk, at most 9
RECURSIVE optimal_loop(_, _, _)
optimal_loop(b, count, base) ==
    IF count < 9 /\ b <= UINT32_MAX \div base
    THEN optimal_loop(b * base, count + 1, base)
    ELSE count

optimal_digits(base) == optimal_loop(base, 1, base)

optimal_base(base) == IPow(base, optimal_digits(base))

\* one pass of short division of temp by chunk, from the top limb down
RECURSIVE short_division(_, _)
short_division(s, chunk) ==
    IF s.i < 1 THEN s
    ELSE short_division(
             [temp |-> [s.temp EXCEPT
                            ![s.i] = ((s.remainder * Radix + s.temp[s.i]) \div chunk) % Radix],
              i |-> s.i - 1,
              remainder |-> (s.remainder * Radix + s.temp[s.i]) % chunk],
             chunk)

RECURSIVE chunk_remainders(_, _)

\* remainders.push_back(remainder); temp.trim()
chunk_push(sd, chunk) == <<sd.remainder>> \o chunk_remainders(trim(sd.temp), chunk)

\* the remainders of repeated division by chunk, least significant first
chunk_remainders(temp, chunk) ==
    IF is_zero(temp) THEN <<>>
    ELSE chunk_push(short_division([temp |-> temp, i |-> Len(temp), remainder |-> 0],
                                   chunk),
                    chunk)

\* the text of one chunk: the most significant one unpadded (nothing when it
\* is 0), every later one padded to `width` digits
render_chunk(value, is_first, base, width) ==
    IF is_first
    THEN (IF value # 0 THEN native_digits(value, base) ELSE <<>>)
    ELSE fixed_digits(value, base, width)

\* the text of the remainders, most significant chunk first
RECURSIVE render_chunks(_, _, _, _)
render_chunks(remainders, i, base, width) ==
    IF i < 1 THEN <<>>
    ELSE render_chunk(remainders[i], i = Len(remainders), base, width)
         \o render_chunks(remainders, i - 1, base, width)

\* return result.empty() ? "0" : result
nonempty(result) == IF result = <<>> THEN <<"0">> ELSE result

chunks_string(remainders, base, width) ==
    nonempty(render_chunks(remainders, Len(remainders), base, width))

\* the chunked printer shared by to_string_base_10 and the generic path
chunked_string(d, base, chunk, width) ==
    IF is_zero(d) THEN <<"0">>
    ELSE IF Len(d) <= 2 THEN native_digits(to_u64(d), base)
    ELSE chunks_string(chunk_remainders(d, chunk), base, width)

\* to_string_base_10's chunk_digits (9 in the source) and chunk_base (10^9):
\* the largest power of ten that fits a limb
chunk_digits == block_len(10)

chunk_base == IPow(10, chunk_digits)

\* big_uint::to_string_base_10
to_string_base_10(d) == chunked_string(d, 10, chunk_base, chunk_digits)

\* to_string_base_2, the loop: result[bit_len - i] = bit_test(i) ? '1' : '0'
RECURSIVE base_2_loop(_, _)
base_2_loop(d, i) ==
    IF i < 0 THEN <<>>
    ELSE <<IF bit_test(d, i) THEN "1" ELSE "0">> \o base_2_loop(d, i - 1)

\* big_uint::to_string_base_2: bits() + 1 characters, bit bits() first
to_string_base_2(d) == base_2_loop(d, bits(d))

\* to_string_base_16, the head: the top limb without its leading zero nibbles
RECURSIVE hex_head(_, _, _)
hex_head(limb, i, is_show) ==
    IF i < 0 THEN <<>>
    ELSE IF is_show \/ limb \div Pow2(i) > 0
    THEN <<base_chars[((limb \div Pow2(i)) % 16) + 1]>> \o hex_head(limb, i - 4, TRUE)
    ELSE hex_head(limb, i - 4, FALSE)

\* to_string_base_16, one lower limb: all its nibbles
RECURSIVE hex_limb(_, _)
hex_limb(limb, i) ==
    IF i < 0 THEN <<>>
    ELSE <<base_chars[((limb \div Pow2(i)) % 16) + 1]>> \o hex_limb(limb, i - 4)

RECURSIVE hex_tail(_, _)
hex_tail(d, i) ==
    IF i < 1 THEN <<>> ELSE hex_limb(d[i], LimbBits - 4) \o hex_tail(d, i - 1)

\* big_uint::to_string_base_16
to_string_base_16(d) ==
    hex_head(d[Len(d)], LimbBits - 4, FALSE) \o hex_tail(d, Len(d) - 1)

\* big_uint::to_string_template<base>
to_string_template(d, base) ==
    IF base = 2 THEN to_string_base_2(d)
    ELSE IF base = 10 THEN to_string_base_10(d)
    ELSE IF base = 16 THEN to_string_base_16(d)
    ELSE chunked_string(d, base, optimal_base(base), optimal_digits(base))

\* big_uint::to_string(base)
to_string(d, base) ==
    IF base < 2 \/ base > 36 THEN Raised("invalid_argument")
    ELSE Returned(to_string_template(d, base))

\* ------------------------------------------------------------------------
\* operands and reference arithmetic
\* ------------------------------------------------------------------------

\* operands have fewer than MaxBits significant bits
MaxBits == 24

\* the limb values operands are built from: zero, one, all ones
LimbValues == {0, 1, UINT32_MAX}

\* the number of limbs an operand can have
MaxBlocks == (MaxBits + LimbBits - 1) \div LimbBits

\* the representation invariant: at least one limb, and no leading zero limb
\* except in the single-limb zero
Normalized(d) == Len(d) >= 1 /\ (Len(d) = 1 \/ d[Len(d)] # 0)

\* the normalized big_uints of exactly k limbs over LimbValues
OperandsOf(k) ==
    {d \in {ToSeq(f, k) : f \in [1..k -> LimbValues]} :
        Normalized(d) /\ bits(d) < MaxBits}

\* operands outside the pattern: 7, 10, 128, 129, 753, 3 * 129, 2^15, 2^23,
\* and one with three unrelated limbs
ExtraOperands ==
    {<<7>>, <<10>>, <<Radix \div 2>>, <<(Radix \div 2) + 1>>, from_u64(753),
     from_u64(3 * ((Radix \div 2) + 1)), <<0, Radix \div 2>>,
     <<0, 0, Radix \div 2>>, <<85, 170, 3>>}

Operands == UNION {OperandsOf(k) : k \in 1..MaxBlocks} \cup ExtraOperands

\* the value of a limb sequence: sum of limb[i] * 2^(LimbBits * i)
RECURSIVE Value(_)
Value(d) == IF Len(d) = 0 THEN 0 ELSE d[1] + Radix * Value(Tail(d))

\* the greatest common divisor of two naturals (Euclid)
RECURSIVE NatGcd(_, _)
NatGcd(i, j) == IF j = 0 THEN i ELSE NatGcd(j, i % j)

\* column k of the product: the sum of a[i] * b[j] over i + j = k + 1
RECURSIVE ColumnSum(_, _, _, _, _)
ColumnSum(a, b, k, lo, hi) ==
    IF lo > hi THEN 0
    ELSE IF lo = hi THEN a[lo] * b[k - lo + 1]
    ELSE ColumnSum(a, b, k, lo, (lo + hi) \div 2)
         + ColumnSum(a, b, k, ((lo + hi) \div 2) + 1, hi)

Column(a, b, k) == ColumnSum(a, b, k, Max(1, k + 1 - Len(b)), Min(k, Len(a)))

\* the limbs of the product, column by column with carry
RECURSIVE ProductLimbs(_, _, _, _, _)
ProductLimbs(s, a, b, lo, hi) ==
    IF lo > hi \/ ~Done(s) THEN s
    ELSE IF lo = hi
    THEN [d |-> Append(s.d, (Column(a, b, lo) + s.carry) % Radix),
          carry |-> (Column(a, b, lo) + s.carry) \div Radix]
    ELSE ProductLimbs(ProductLimbs(s, a, b, lo, (lo + hi) \div 2), a, b,
                      ((lo + hi) \div 2) + 1, hi)

\* a limb sequence without its leading zero limbs
Canonical(d) ==
    IF \A i \in 1..Len(d) : d[i] = 0 THEN <<0>>
    ELSE SubSeq(d, 1, CHOOSE i \in 1..Len(d) :
                          d[i] # 0 /\ \A j \in (i + 1)..Len(d) : d[j] = 0)

\* the exact product of two limb sequences, normalized
Product(a, b) ==
    Canonical(ProductLimbs([d |-> <<>>, carry |-> 0], a, b, 1, Len(a) + Len(b)).d)

\* the record of a call that has not happened
NoResult == [thrown |-> "none"]

\* the record of a call on (a, b) that returned or raised
Outcome(a, b, res) == [a |-> a, b |-> b, thrown |-> res.thrown, val |-> res.val]

\* the record of a call on (a, b) that returned a quotient and a remainder,
\* or raised
QuotRem(a, b, res) ==
    [a |-> a, b |-> b, thrown |-> res.thrown, val |-> res.q, r |-> res.r]

\* results are followed up only below MaxBits bits
Fits(res) == IF res.thrown = "none" THEN bits(res.val) < MaxBits ELSE TRUE

\* *this = <result>: nothing is assigned when the right-hand side throws
Assigned(this, res) == IF res.thrown = "none" THEN res.val ELSE this

\* ------------------------------------------------------------------------
\* SpecPairs: one call of a binary entry point on a pair of operands
\* ------------------------------------------------------------------------

InitPairs ==
    /\ x \in Operands
    /\ y \in Operands
    /\ n = 0
    /\ op = "init"
    /\ out = NoResult

\* q = x / y
OpDivide ==
    /\ op = "init"
    /\ op' = "operator/"
    /\ out' = Outcome(x, y, Div(x, y))
    /\ UNCHANGED <<x, y, n>>

\* x /= y: *this = *this / other
OpDivideAssign ==
    /\ op = "init"
    /\ op' = "operator/="
    /\ out' = Outcome(x, y, Div(x, y))
    /\ x' = Assigned(x, out')
    /\ UNCHANGED <<y, n>>

\* r = x % y
OpModulo ==
    /\ op = "init"
    /\ op' = "operator%"
    /\ out' = Outcome(x, y, Mod(x, y))
    /\ UNCHANGED <<x, y, n>>

\* x %= y: *this = *this % other
OpModuloAssign ==
    /\ op = "init"
    /\ op' = "operator%="
    /\ out' = Outcome(x, y, Mod(x, y))
    /\ x' = Assigned(x, out')
    /\ UNCHANGED <<y, n>>

\* big_uint::div(x, y, q, r)
OpDivFn ==
    /\ op = "init"
    /\ op' = "div"
    /\ out' = QuotRem(x, y, div(x, y))
    /\ UNCHANGED <<x, y, n>>

\* division_default(x, y, q, r)
OpDivisionDefault ==
    /\ op = "init"
    /\ op' = "division_default"
    /\ out' = QuotRem(x, y, div_result(division_default(x, y)))
    /\ UNCHANGED <<x, y, n>>

\* division_newton_raphson(x, y, q, r): a private routine, which operator/,
\* operator% and div call only after they have dealt with y = 0
OpDivisionNewton ==
    /\ op = "init"
    /\ ~is_zero(y)
    /\ op' = "division_newton_raphson"
    /\ out' = QuotRem(x, y, div_result(division_newton_raphson(x, y)))
    /\ UNCHANGED <<x, y, n>>

\* g = big_uint::gcd(x, y)
OpGcd ==
    /\ op = "init"
    /\ op' = "gcd"
    /\ out' = Outcome(x, y, Returned(gcd(x, y)))
    /\ UNCHANGED <<x, y, n>>

\* l = big_uint::lcm(x, y)
OpLcm ==
    /\ op = "init"
    /\ op' = "lcm"
    /\ out' = Outcome(x, y, lcm(x, y))
    /\ UNCHANGED <<x, y, n>>

\* d = x - y
OpMinus ==
    /\ op = "init"
    /\ op' = "operator-"
    /\ out' = Outcome(x, y, Returned(Sub(x, y)))
    /\ UNCHANGED <<x, y, n>>

\* x -= y
OpMinusAssign ==
    /\ op = "init"
    /\ op' = "operator-="
    /\ out' = Outcome(x, y, Returned(SubAssign(x, y)))
    /\ x' = out'.val
    /\ UNCHANGED <<y, n>>

\* --x
OpDecrement ==
    /\ op = "init"
    /\ op' = "operator--"
    /\ out' = Outcome(x, from_u64(1), Returned(Dec(x)))
    /\ x' = out'.val
    /\ UNCHANGED <<y, n>>

\* d = x + y - y
OpPlusMinus ==
    /\ op = "init"
    /\ op' = "a+b-b"
    /\ out' = Outcome(x, y, Returned(Sub(Add(x, y), y)))
    /\ UNCHANGED <<x, y, n>>

NextPairs ==
    \/ OpDivide
    \/ OpDivideAssign
    \/ OpModulo
    \/ OpModuloAssign
    \/ OpDivFn
    \/ OpDivisionDefault
    \/ OpDivisionNewton
    \/ OpGcd
    \/ OpLcm
    \/ OpMinus
    \/ OpMinusAssign
    \/ OpDecrement
    \/ OpPlusMinus

SpecPairs == InitPairs /\ [][NextPairs]_vars

\* ------------------------------------------------------------------------
\* SpecMul: the multiplication routines applied to the same operand pair
\* ------------------------------------------------------------------------

\* limb i of a long operand of k limbs
LongLimb(kind, i, k) ==
    IF kind = "ones" \/ i = k THEN UINT32_MAX ELSE (i * 37 + 11) % Radix

RECURSIVE LongFill(_, _, _, _)
LongFill(kind, lo, hi, k) ==
    IF lo > hi THEN <<>>
    ELSE IF lo = hi THEN <<LongLimb(kind, lo, k)>>
    ELSE LongFill(kind, lo, (lo + hi) \div 2, k)
         \o LongFill(kind, ((lo + hi) \div 2) + 1, hi, k)

\* a normalized operand of k limbs
Long(kind, k) == LongFill(kind, 1, k, k)

\* pairs around the thresholds of operator*= and multiply_karatsuba: limb
\* counts one below, at and one above karatsuba_small
ThresholdPairs ==
    {<<Long("ones", j), Long("ramp", k)>> :
        j, k \in (karatsuba_small - 1)..(karatsuba_small + 1)}

\* pairs of very different lengths whose limb counts sum to
\* karatsuba_switch + 1
SkewedPairs ==
    {<<Long("ones", karatsuba_switch), <<7>>>>,
     <<from_u64(753), Long("ramp", karatsuba_switch - 1)>>,
     <<<<UINT32_MAX, UINT32_MAX, UINT32_MAX>>, Long("ones", karatsuba_switch - 2)>>}

\* a pair long enough for multiply_karatsuba to call itself through
\* operator*=
DeepPairs ==
    {<<Long("ramp", karatsuba_switch + 2), Long("ones", karatsuba_switch + 1)>>}

MulPairs ==
    (Operands \X Operands) \cup ThresholdPairs \cup SkewedPairs \cup DeepPairs

InitMul ==
    /\ \E pair \in MulPairs : x = pair[1] /\ y = pair[2]
    /\ n = 0
    /\ op = "init"
    /\ out = NoResult

\* multiply_default(a, y) on a copy a of x
OpMultiplyDefault ==
    /\ op = "init"
    /\ op' = "multiply_default"
    /\ out' = [a |-> x, b |-> y, schoolbook |-> multiply_default(x, y),
               karatsuba |-> <<>>]
    /\ UNCHANGED <<x, y, n>>

\* multiply_karatsuba(a, y) on a copy a of x
OpMultiplyKaratsuba ==
    /\ op = "multiply_default"
    /\ op' = "multiply_karatsuba"
    /\ out' = [out EXCEPT !.karatsuba = multiply_karatsuba(x, y)]
    /\ UNCHANGED <<x, y, n>>

\* x *= y
OpMultiplyAssign ==
    /\ op = "multiply_karatsuba"
    /\ op' = "operator*="
    /\ x' = MulAssign(x, y)
    /\ UNCHANGED <<y, n, out>>

NextMul ==
    \/ OpMultiplyDefault
    \/ OpMultiplyKaratsuba
    \/ OpMultiplyAssign

SpecMul == InitMul /\ [][NextMul]_vars

\* ------------------------------------------------------------------------
\* SpecStr: printing and parsing
\* ------------------------------------------------------------------------

\* the bases offered to to_string: the 35 valid ones and one on each side
Bases == 1..37

\* the text "753" and other inputs of the string constructor
Texts ==
    {<<"7", "5", "3">>, <<"0">>, <<>>, <<"0", "0", "2", "5", "5">>,
     <<"F", "f">>, <<"z", "Z">>, <<"1", "0", "1", "1", "1", "1", "0", "0", "0", "1">>,
     <<"1", "2", "x">>, <<"-", "1">>}

\* the record of a call that took or produced a text in base k
Text(a, k, str, res) ==
    [a |-> a, k |-> k, str |-> str, thrown |-> res.thrown, val |-> res.val]

\* the record of a call of to_string(k)
Printed(a, k, res) ==
    [a |-> a, k |-> k, str |-> res.val, thrown |-> res.thrown, val |-> <<>>]

InitStr ==
    /\ x \in Operands
    /\ y = from_u64(0)
    /\ n = 0
    /\ op = "init"
    /\ out = NoResult

\* x = big_uint(str, base)
OpParse ==
    /\ op = "init"
    /\ is_zero(x)
    /\ \E str \in Texts, base \in {2, 10, 16, 36, 37} :
           out' = Text(x, base, str, big_uint_str(str, base))
    /\ Fits(out')
    /\ x' = Assigned(x, out')
    /\ op' = "big_uint"
    /\ UNCHANGED <<y, n>>

\* s = x.to_string(base)
OpToString ==
    /\ op \in {"init", "big_uint"}
    /\ \E base \in Bases :
           out' = Printed(x, base, to_string(x, base))
    /\ op' = "to_string"
    /\ UNCHANGED <<x, y, n>>

\* x = big_uint(s, base) for the text s that to_string(base) returned
OpReadBack ==
    /\ op = "to_string"
    /\ out.thrown = "none"
    /\ x' = Assigned(x, big_uint_str(out.str, out.k))
    /\ op' = "read back"
    /\ UNCHANGED <<y, n, out>>

\* k = x.bits()
OpBits ==
    /\ op \in {"init", "big_uint"}
    /\ out' = Text(x, bits(x), <<>>, Returned(<<>>))
    /\ op' = "bits"
    /\ UNCHANGED <<x, y, n>>

NextStr ==
    \/ OpParse
    \/ OpToString
    \/ OpReadBack
    \/ OpBits

SpecStr == InitStr /\ [][NextStr]_vars

\* ------------------------------------------------------------------------
\* Spec: sequences of operations on two values
\* ------------------------------------------------------------------------

\* the number of operations in a sequence
MaxSteps == 2

\* the values a sequence starts from
Seeds ==
    {from_u64(0), from_u64(1), <<UINT32_MAX>>, <<0, 1>>,
     <<UINT32_MAX, UINT32_MAX>>, <<0, 0, 1>>}

\* the shift amounts and exponents offered to <<, >> and pow
Amounts == {0, 1, LimbBits, LimbBits + 1}

Init ==
    /\ x \in Seeds
    /\ y \in Seeds
    /\ n = 0
    /\ op = "init"
    /\ out = NoResult

\* x = x + y
DoAdd ==
    /\ n < MaxSteps
    /\ out' = Outcome(x, y, Returned(Add(x, y)))
    /\ Fits(out')
    /\ x' = Assigned(x, out')
    /\ n' = n + 1
    /\ op' = "operator+"
    /\ y' = y

\* x = x - y
DoSub ==
    /\ n < MaxSteps
    /\ out' = Outcome(x, y, Returned(Sub(x, y)))
    /\ Fits(out')
    /\ x' = Assigned(x, out')
    /\ n' = n + 1
    /\ op' = "operator-"
    /\ y' = y

\* x = x * y
DoMul ==
    /\ n < MaxSteps
    /\ out' = Outcome(x, y, Returned(Mul(x, y)))
    /\ Fits(out')
    /\ x' = Assigned(x, out')
    /\ n' = n + 1
    /\ op' = "operator*"
    /\ y' = y

\* x = x / y
DoDiv ==
    /\ n < MaxSteps
    /\ out' = Outcome(x, y, Div(x, y))
    /\ Fits(out')
    /\ x' = Assigned(x, out')
    /\ n' = n + 1
    /\ op' = "operator/"
    /\ y' = y

\* x = x % y
DoMod ==
    /\ n < MaxSteps
    /\ out' = Outcome(x, y, Mod(x, y))
    /\ Fits(out')
    /\ x' = Assigned(x, out')
    /\ n' = n + 1
    /\ op' = "operator%"
    /\ y' = y

\* ++x
DoInc ==
    /\ n < MaxSteps
    /\ out' = Outcome(x, y, Returned(Inc(x)))
    /\ Fits(out')
    /\ x' = Assigned(x, out')
    /\ n' = n + 1
    /\ op' = "operator++"
    /\ y' = y

\* --x
DoDec ==
    /\ n < MaxSteps
    /\ out' = Outcome(x, y, Returned(Dec(x)))
    /\ Fits(out')
    /\ x' = Assigned(x, out')
    /\ n' = n + 1
    /\ op' = "operator--"
    /\ y' = y

\* x = x << k
DoShl ==
    /\ n < MaxSteps
    /\ \E k \in Amounts : out' = Outcome(x, y, Returned(ShiftLeft(x, k)))
    /\ Fits(out')
    /\ x' = Assigned(x, out')
    /\ n' = n + 1
    /\ op' = "operator<<"
    /\ y' = y

\* x = x >> k
DoShr ==
    /\ n < MaxSteps
    /\ \E k \in Amounts : out' = Outcome(x, y, Returned(ShiftRight(x, k)))
    /\ Fits(out')
    /\ x' = Assigned(x, out')
    /\ n' = n + 1
    /\ op' = "operator>>"
    /\ y' = y

\* x = gcd(x, y)
DoGcd ==
    /\ n < MaxSteps
    /\ out' = Outcome(x, y, Returned(gcd(x, y)))
    /\ Fits(out')
    /\ x' = Assigned(x, out')
    /\ n' = n + 1
    /\ op' = "gcd"
    /\ y' = y

\* x = lcm(x, y)
DoLcm ==
    /\ n < MaxSteps
    /\ out' = Outcome(x, y, lcm(x, y))
    /\ Fits(out')
    /\ x' = Assigned(x, out')
    /\ n' = n + 1
    /\ op' = "lcm"
    /\ y' = y

\* x = pow(x, k)
DoPow ==
    /\ n < MaxSteps
    /\ \E k \in Amounts : out' = Outcome(x, y, Returned(pow(x, k)))
    /\ Fits(out')
    /\ x' = Assigned(x, out')
    /\ n' = n + 1
    /\ op' = "pow"
    /\ y' = y

\* x = big_uint(str, base)
DoParse ==
    /\ n < MaxSteps
    /\ \E str \in Texts, base \in {2, 10, 16, 36} : out' = Outcome(x, y, big_uint_str(str, base))
    /\ Fits(out')
    /\ x' = Assigned(x, out')
    /\ n' = n + 1
    /\ op' = "big_uint"
    /\ y' = y

\* x.swap(y)
DoSwap ==
    /\ n < MaxSteps
    /\ n' = n + 1
    /\ op' = "swap"
    /\ out' = Outcome(x, y, Returned(y))
    /\ x' = y
    /\ y' = x

Next ==
    \/ DoAdd
    \/ DoSub
    \/ DoMul
    \/ DoDiv
    \/ DoMod
    \/ DoInc
    \/ DoDec
    \/ DoShl
    \/ DoShr
    \/ DoGcd
    \/ DoLcm
    \/ DoPow
    \/ DoParse
    \/ DoSwap

Spec == Init /\ [][Next]_vars


\* ------------------------------------------------------------------------
\* chenc::big_int::fraction (src/fraction.hpp): a magnitude numerator_, a
\* magnitude denominator_, the sign is_negative_ and the precision bound
\* max_bits_.  The guard bits a transcendental routine adds to max_bits_
\* are the 32 of the source.
\* ------------------------------------------------------------------------

\* the members of a fraction
Fraction(numerator, denominator, is_negative, max_bits) ==
    [numerator_ |-> numerator, denominator_ |-> denominator,
     is_negative_ |-> is_negative, max_bits_ |-> max_bits]

\* an exception that leaves a member function: `this` is the state the
\* object is left in
RaisedIn(e, this) == [thrown |-> e, val |-> this]

\* chenc::tools::abs
abs(v) == IF v < 0 THEN -v ELSE v

\* fraction::is_one: numerator_ == denominator_, whatever the sign
fraction_is_one(f) == Equal(f.numerator_, f.denominator_)

\* fraction::is_zero
fraction_is_zero(f) == Equal(f.numerator_, from_u64(0))

\* the precision cap decided by the longer of the two terms
simplify_shift_longer(f) ==
    IF bits(f.denominator_) > bits(f.numerator_)
    THEN IF bits(f.denominator_) > f.max_bits_
         THEN [f EXCEPT
                  !.numerator_ = ShiftRight(@, bits(f.denominator_) - f.max_bits_),
                  !.denominator_ = ShiftRight(@, bits(f.denominator_) - f.max_bits_)]
         ELSE f
    ELSE IF bits(f.numerator_) > f.max_bits_
         THEN [f EXCEPT
                  !.numerator_ = ShiftRight(@, bits(f.numerator_) - f.max_bits_),
                  !.denominator_ = ShiftRight(@, bits(f.numerator_) - f.max_bits_)]
         ELSE f

\* simplify, the precision cap: the shorter of the two terms decides
simplify_shift(f) ==
    IF bits(f.denominator_) > bits(f.numerator_)
    THEN IF bits(f.numerator_) > f.max_bits_
         THEN [f EXCEPT
                  !.numerator_ = ShiftRight(@, bits(f.numerator_) - f.max_bits_),
                  !.denominator_ = ShiftRight(@, bits(f.numerator_) - f.max_bits_)]
         ELSE f
    ELSE IF bits(f.denominator_) > f.max_bits_
         THEN [f EXCEPT
                  !.numerator_ = ShiftRight(@, bits(f.denominator_) - f.max_bits_),
                  !.denominator_ = ShiftRight(@, bits(f.denominator_) - f.max_bits_)]
         ELSE f

\* simplify, the division of both terms by their gcd g
simplify_reduce(f, g) ==
    IF Greater(g, from_u64(1))
    THEN [f EXCEPT !.numerator_ = Div(@, g).val, !.denominator_ = Div(@, g).val]
    ELSE f

\* simplify, from the precision cap on
simplify_capped(f) == simplify_reduce(f, gcd(f.numerator_, f.denominator_))

\* fraction::simplify
simplify(f) ==
    IF is_one(f.numerator_) \/ is_one(f.denominator_) THEN Returned(f)
    ELSE IF Equal(f.denominator_, from_u64(0)) THEN RaisedIn("division_by_zero", f)
    ELSE IF Equal(f.numerator_, from_u64(0))
    THEN Returned([f EXCEPT !.denominator_ = from_u64(1), !.is_negative_ = FALSE])
    ELSE IF Equal(f.numerator_, f.denominator_)
    THEN Returned([f EXCEPT !.numerator_ = from_u64(1), !.denominator_ = from_u64(1)])
    ELSE Returned(simplify_capped(simplify_shift(f)))

\* an object under construction, or the temporary fraction(*this) of a binary
\* operator: it is gone when the call throws
temporary(res) == IF res.thrown = "none" THEN res ELSE Raised(res.thrown)

\* fraction(const uint64_t &max_bits)
fraction_default(max_bits) == Fraction(from_u64(0), from_u64(1), FALSE, max_bits)

\* fraction(const big_uint &numerator, const big_uint &denominator, max_bits)
fraction_big(numerator, denominator, max_bits) ==
    temporary(simplify(Fraction(numerator, denominator, FALSE, max_bits)))

\* fraction(const T1 &numerator, const T2 &denominator, max_bits), T1 and T2
\* native integers: the terms are the absolute values
fraction_int(numerator, denominator, max_bits) ==
    temporary(simplify(Fraction(from_u64(abs(numerator)), from_u64(abs(denominator)),
                                (numerator < 0) # (denominator < 0), max_bits)))

\* set_precision, max_bits_ = value after simplify() returned
precision_set(res, value) ==
    IF res.thrown = "none" THEN Returned([res.val EXCEPT !.max_bits_ = value]) ELSE res

\* fraction::set_precision
set_precision(this, value) ==
    IF value < this.max_bits_ THEN precision_set(simplify(this), value)
    ELSE Returned([this EXCEPT !.max_bits_ = value])

\* the sign left as the delegated call returned it
flip_forgotten(res) == res

\* is_negative_ = !is_negative_, after a call that returned
flipped(res) ==
    IF res.thrown = "none" THEN Returned([res.val EXCEPT !.is_negative_ = ~@])
    ELSE res

RECURSIVE FAddAssign(_, _)
RECURSIVE FSubAssign(_, _)

\* fraction::operator+=
FAddAssign(this, value) ==
    IF this.is_negative_ # value.is_negative_
    THEN flipped(FSubAssign([this EXCEPT !.max_bits_ = Max(@, value.max_bits_),
                                         !.is_negative_ = value.is_negative_],
                            value))
    ELSE simplify([this EXCEPT
                      !.max_bits_ = Max(@, value.max_bits_),
                      !.numerator_ = Add(Mul(this.numerator_, value.denominator_),
                                         Mul(value.numerator_, this.denominator_)),
                      !.denominator_ = Mul(this.denominator_, value.denominator_)])

\* operator-=, same signs: the difference of the cross products cross1 and
\* cross2, the sign turned when cross1 < cross2
sub_cross(this, value, cross1, cross2) ==
    simplify([this EXCEPT
                 !.max_bits_ = Max(@, value.max_bits_),
                 !.is_negative_ = IF GreaterEq(cross1, cross2) THEN @ ELSE ~@,
                 !.numerator_ = IF GreaterEq(cross1, cross2) THEN Sub(cross1, cross2)
                                ELSE Sub(cross2, cross1),
                 !.denominator_ = Mul(this.denominator_, value.denominator_)])

\* fraction::operator-=
FSubAssign(this, value) ==
    IF this.is_negative_ # value.is_negative_
    THEN flipped(FAddAssign([this EXCEPT !.max_bits_ = Max(@, value.max_bits_),
                                         !.is_negative_ = value.is_negative_],
                            value))
    ELSE sub_cross(this, value, Mul(this.numerator_, value.denominator_),
                   Mul(value.numerator_, this.denominator_))

\* fraction::operator*=
FMulAssign(this, value) ==
    simplify([this EXCEPT
                 !.is_negative_ = (@ # value.is_negative_),
                 !.max_bits_ = Max(@, value.max_bits_),
                 !.numerator_ = MulAssign(@, value.numerator_),
                 !.denominator_ = MulAssign(@, value.denominator_)])

\* fraction::operator/=
FDivAssign(this, value) ==
    simplify([this EXCEPT
                 !.is_negative_ = (@ # value.is_negative_),
                 !.max_bits_ = Max(@, value.max_bits_),
                 !.numerator_ = MulAssign(@, value.denominator_),
                 !.denominator_ = MulAssign(@, value.numerator_)])

\* operator/= called as a /= a, the first two statements: value is *this
self_sign(this) ==
    [this EXCEPT !.is_negative_ = (@ # this.is_negative_),
                 !.max_bits_ = Max(@, this.max_bits_)]

\* a /= a, numerator_ *= value.denominator_
self_numerator(this) == [this EXCEPT !.numerator_ = MulAssign(@, this.denominator_)]

\* a /= a, denominator_ *= value.numerator_: value.numerator_ is the
\* numerator_ the statement before has written
self_denominator(this) == [this EXCEPT !.denominator_ = MulAssign(@, this.numerator_)]

\* fraction::operator/= with value bound to *this
FDivAssignSelf(this) == simplify(self_denominator(self_numerator(self_sign(this))))

\* fraction::operator+, operator-, operator*, operator/
FAdd(a, b) == temporary(FAddAssign(a, b))

FSub(a, b) == temporary(FSubAssign(a, b))

FMul(a, b) == temporary(FMulAssign(a, b))

FDiv(a, b) == temporary(FDivAssign(a, b))

\* fraction::operator==
FEqual(a, b) ==
    /\ a.is_negative_ = b.is_negative_
    /\ Equal(a.numerator_, b.numerator_)
    /\ Equal(a.denominator_, b.denominator_)

\* fraction::operator!=
FNotEqual(a, b) == ~FEqual(a, b)

\* fraction::operator<
FLess(a, b) ==
    IF ~a.is_negative_ /\ ~b.is_negative_
    THEN Less(Mul(a.numerator_, b.denominator_), Mul(b.numerator_, a.denominator_))
    ELSE IF ~a.is_negative_ /\ b.is_negative_ THEN FALSE
    ELSE IF a.is_negative_ /\ ~b.is_negative_ THEN TRUE
    ELSE Greater(Mul(a.numerator_, b.denominator_), Mul(b.numerator_, a.denominator_))

\* fraction::operator>
FGreater(a, b) == FLess(b, a)

\* fraction::operator<=
FLessEq(a, b) == ~FLess(a, b)

\* fraction::operator>=
FGreaterEq(a, b) == ~FLess(a, b)

\* ------------------------------------------------------------------------
\* fraction(const std::string_view &str, max_bits); indices into str count
\* from 0 as in the source, -1 is "not seen"
\* ------------------------------------------------------------------------

digit_chars == {"0", "1", "2", "3", "4", "5", "6", "7", "8", "9"}

\* the scan's record before the first character
scan_start == [char_e_index |-> -1, char_dot_index |-> -1,
               char_plus_or_minus_index |-> <<-1, -1>>, thrown |-> "none"]

\* the switch on the character c at index i
scan_char(s, c, i) ==
    IF c \in {"+", "-"}
    THEN IF s.char_plus_or_minus_index[1] < 0
         THEN [s EXCEPT !.char_plus_or_minus_index[1] = i]
         ELSE IF s.char_plus_or_minus_index[2] < 0
         THEN [s EXCEPT !.char_plus_or_minus_index[2] = i]
         ELSE [s EXCEPT !.thrown = "invalid_argument"]
    ELSE IF c = "."
    THEN IF s.char_dot_index < 0 THEN [s EXCEPT !.char_dot_index = i]
         ELSE [s EXCEPT !.thrown = "invalid_argument"]
    ELSE IF c \in digit_chars THEN s
    ELSE IF c \in {"e", "E"}
    THEN IF s.char_e_index < 0 THEN [s EXCEPT !.char_e_index = i]
         ELSE [s EXCEPT !.thrown = "invalid_argument"]
    ELSE [s EXCEPT !.thrown = "invalid_argument"]

\* the loop over the characters of str
RECURSIVE scan_chars(_, _, _)
scan_chars(s, str, i) ==
    IF s.thrown # "none" \/ i >= Len(str) THEN s
    ELSE scan_chars(scan_char(s, str[i + 1], i), str, i + 1)

\* std::string_view::substr(pos, count) and substr(pos)
substr(str, pos, count) == SubSeq(str, pos + 1, Min(Len(str), pos + count))

substr_from(str, pos) == SubSeq(str, pos + 1, Len(str))

\* std::stoll of a string of digits
RECURSIVE stoll(_)
stoll(str) ==
    IF Len(str) = 0 THEN 0
    ELSE stoll(SubSeq(str, 1, Len(str) - 1)) * 10 + chars_base(str[Len(str)])

\* big_uint m = 1; for (i = 0; i < k; i++) m *= 10;
RECURSIVE ten_power(_)
ten_power(k) ==
    IF k <= 0 THEN from_u64(1) ELSE MulAssign(ten_power(k - 1), from_u64(10))

\* number_str, "0" when both parts are empty
number_str(integer_part, fractional_part) ==
    IF Len(integer_part \o fractional_part) = 0 THEN <<"0">>
    ELSE integer_part \o fractional_part

\* the numerator: the digits of both parts, times 10^exponent
str_numerator(integer_part, fractional_part, exponent) ==
    IF exponent > 0
    THEN MulAssign(big_uint_str(number_str(integer_part, fractional_part), 10).val,
                   ten_power(exponent))
    ELSE big_uint_str(number_str(integer_part, fractional_part), 10).val

\* the denominator: 10^(digits after the dot), times 10^-exponent
str_denominator(fractional_part, exponent) ==
    IF exponent < 0
    THEN MulAssign(ten_power(Len(fractional_part)), ten_power(-exponent))
    ELSE ten_power(Len(fractional_part))

\* both branches, from the three parts to simplify()
str_value(integer_part, fractional_part, exponent, is_negative, max_bits) ==
    temporary(simplify(Fraction(str_numerator(integer_part, fractional_part, exponent),
                                str_denominator(fractional_part, exponent),
                                is_negative, max_bits)))

\* the index of the first digit of the exponent
exponent_start(str, char_e_index) ==
    char_e_index + 1 + (IF str[char_e_index + 2] \in {"+", "-"} THEN 1 ELSE 0)

\* the exponent, negated after "e-"
str_exponent(str, char_e_index) ==
    IF str[char_e_index + 2] = "-"
    THEN -stoll(substr_from(str, exponent_start(str, char_e_index)))
    ELSE stoll(substr_from(str, exponent_start(str, char_e_index)))

\* the scientific branch
str_scientific(str, s, start_index, is_negative, max_bits) ==
    IF s.char_e_index + 1 >= Len(str) THEN Raised("invalid_argument")
    ELSE IF exponent_start(str, s.char_e_index) >= Len(str)
    THEN Raised("invalid_argument")
    ELSE IF \E i \in exponent_start(str, s.char_e_index)..(Len(str) - 1) :
                str[i + 1] \notin digit_chars
    THEN Raised("invalid_argument")
    ELSE str_value(IF s.char_dot_index >= 0
                   THEN substr(str, start_index, s.char_dot_index - start_index)
                   ELSE substr(str, start_index, s.char_e_index - start_index),
                   IF s.char_dot_index >= 0
                   THEN substr(str, s.char_dot_index + 1,
                               s.char_e_index - s.char_dot_index - 1)
                   ELSE <<>>,
                   str_exponent(str, s.char_e_index), is_negative, max_bits)

\* the plain decimal branch
str_decimal(str, s, start_index, is_negative, max_bits) ==
    str_value(IF s.char_dot_index >= 0
              THEN substr(str, start_index, s.char_dot_index - start_index)
              ELSE substr_from(str, start_index),
              IF s.char_dot_index >= 0 THEN substr_from(str, s.char_dot_index + 1)
              ELSE <<>>,
              0, is_negative, max_bits)

\* the constructor after the scan
str_scanned(str, s, max_bits) ==
    IF s.thrown # "none" THEN Raised(s.thrown)
    ELSE IF s.char_e_index >= 0
    THEN str_scientific(str, s, IF s.char_plus_or_minus_index[1] = 0 THEN 1 ELSE 0,
                        s.char_plus_or_minus_index[1] = 0 /\ str[1] = "-", max_bits)
    ELSE str_decimal(str, s, IF s.char_plus_or_minus_index[1] = 0 THEN 1 ELSE 0,
                     s.char_plus_or_minus_index[1] = 0 /\ str[1] = "-", max_bits)

\* fraction(const std::string_view &str, const uint64_t &max_bits)
fraction_str(str, max_bits) ==
    IF Len(str) = 0 THEN Raised("invalid_argument")
    ELSE str_scanned(str, scan_chars(scan_start, str, 0), max_bits)

\* ------------------------------------------------------------------------
\* fraction: pow, log, sqrt.  The operands of the arithmetic inside these
\* routines have non-zero denominators, so that none of it throws.
\* ------------------------------------------------------------------------

\* the guard bits added to the precision inside sqrt, natural_log and exp
guard_bits == 32

\* UINT64_MAX of the model
UINT64_MAX == U64 - 1

\* the fraction f with max_bits_ overwritten
with_max_bits(f, max_bits) == [f EXCEPT !.max_bits_ = max_bits]

\* int64_t division, rounding toward zero
int_div(i, j) == IF i >= 0 THEN i \div j ELSE -((-i) \div j)

\* pow_integer_exponent, one turn of the loop given the two products
pow_integer_step(s, result, base) ==
    IF result.thrown # "none" THEN [s EXCEPT !.thrown = result.thrown]
    ELSE IF base.thrown # "none" THEN [s EXCEPT !.thrown = base.thrown]
    ELSE [result |-> result.val, base |-> base.val, exp |-> ShiftRight(s.exp, 1),
          thrown |-> "none"]

\* pow_integer_exponent, the square-and-multiply loop
RECURSIVE pow_integer_loop(_)
pow_integer_loop(s) ==
    IF s.thrown # "none" \/ is_zero(s.exp) THEN s
    ELSE pow_integer_loop(
             pow_integer_step(s,
                              IF bit_test(s.exp, 0) THEN FMulAssign(s.result, s.base)
                              ELSE Returned(s.result),
                              FMulAssign(s.base, s.base)))

\* pow_integer_exponent, the result of the loop
pow_integer_result(s) ==
    IF s.thrown # "none" THEN Raised(s.thrown)
    ELSE Returned(with_max_bits(s.result, Max(s.result.max_bits_, s.base.max_bits_)))

\* fraction::pow_integer_exponent
pow_integer_exponent(base, exp) ==
    pow_integer_result(pow_integer_loop(
        [result |-> fraction_int(1, 1, Max(base.max_bits_, bits(exp))).val,
         base |-> with_max_bits(base, Max(base.max_bits_, bits(exp))),
         exp |-> exp, thrown |-> "none"]))

\* pow, the whole-number path after pow_integer_exponent
pow_integer(result, b) ==
    IF result.thrown # "none" THEN result
    ELSE IF b.is_negative_
    THEN IF is_zero(result.val.numerator_) THEN Raised("division_by_zero")
         ELSE Returned([result.val EXCEPT !.numerator_ = result.val.denominator_,
                                          !.denominator_ = result.val.numerator_])
    ELSE result

\* natural_log, next_term: term with its denominator multiplied by n
next_term(term, k) == [term EXCEPT !.denominator_ = MulAssign(@, from_u64(k))]

\* natural_log, the test that ends the series
log_converged(next, tolerance) ==
    \/ is_zero(next.numerator_)
    \/ Less(Mul(next.numerator_, tolerance.denominator_),
            Mul(tolerance.numerator_, next.denominator_))

RECURSIVE natural_log_loop(_, _, _)

\* natural_log, one turn of the loop once term *= y_squared is done; s holds
\* term, sum and n
natural_log_turn(s, y_squared, tolerance) ==
    IF log_converged(next_term(s.term, s.k), tolerance) THEN s.sum
    ELSE natural_log_loop([term |-> s.term,
                           sum |-> FAddAssign(s.sum, next_term(s.term, s.k)).val,
                           k |-> s.k + 2],
                          y_squared, tolerance)

\* natural_log, the loop for (n = 3;; n += 2)
natural_log_loop(s, y_squared, tolerance) ==
    natural_log_turn([s EXCEPT !.term = FMulAssign(@, y_squared).val],
                     y_squared, tolerance)

\* natural_log, the series in y = (val - 1) / (val + 1)
natural_log_series(ratio, tolerance) ==
    natural_log_loop([term |-> ratio, sum |-> ratio, k |-> 3],
                     FMul(ratio, ratio).val, tolerance)

\* natural_log, from y on: 2 * sum, narrowed
natural_log_sum(val, precision, new_max_bits) ==
    with_max_bits(
        FMul(fraction_int(2, 1, new_max_bits).val,
             natural_log_series(
                 FDiv(FSub(val, fraction_int(1, 1, new_max_bits).val).val,
                      FAdd(val, fraction_int(1, 1, new_max_bits).val).val).val,
                 fraction_big(from_u64(1), ShiftLeft(from_u64(1), precision + 4),
                              new_max_bits).val)).val,
        Max(val.max_bits_, precision))

\* fraction::natural_log
natural_log(val, precision) ==
    IF val.is_negative_ \/ is_zero(val.numerator_) THEN Raised("domain_error")
    ELSE IF fraction_is_one(val)
    THEN fraction_int(0, 1, Max(val.max_bits_, precision))
    ELSE Returned(natural_log_sum(val, precision,
                                  Max(val.max_bits_, precision) + guard_bits))

\* log, the quotient ln_x / ln_base of the logarithms ln of arg and of base
log_quotient(ln, base, arg) ==
    IF ln[arg].thrown # "none" THEN ln[arg]
    ELSE IF ln[base].thrown # "none" THEN ln[base]
    ELSE IF is_zero(ln[base].val.numerator_) THEN Raised("division_by_zero")
    ELSE FDiv(ln[arg].val, ln[base].val)

\* fraction::log(base, x, precision): natural_log of x and of base at the
\* precision pre = min(max(base.max_bits_, x.max_bits_), precision)
fraction_log(base, arg, precision) ==
    IF base.is_negative_ \/ is_zero(base.numerator_) \/ fraction_is_one(base)
    THEN Raised("domain_error")
    ELSE IF arg.is_negative_ \/ is_zero(arg.numerator_) THEN Raised("domain_error")
    ELSE log_quotient(
             [val \in {arg, base} |->
                 natural_log(val, Min(Max(base.max_bits_, arg.max_bits_), precision))],
             base, arg)

\* exp, the test that ends the series
exp_converged(term, tolerance) ==
    \/ is_zero(term.numerator_)
    \/ Less(Mul(term.numerator_, tolerance.denominator_), term.denominator_)

RECURSIVE exp_loop(_, _, _, _)

\* exp, one turn of the loop once term is assigned; s holds term, sum and n
exp_turn(s, val, tolerance, new_max_bits) ==
    IF exp_converged(s.term, tolerance) THEN s.sum
    ELSE exp_loop([term |-> s.term, sum |-> FAddAssign(s.sum, s.term).val,
                   k |-> s.k + 1],
                  val, tolerance, new_max_bits)

\* exp, the loop for (n = 1;; ++n): term = (term * val) / n
exp_loop(s, val, tolerance, new_max_bits) ==
    exp_turn([s EXCEPT !.term = FDiv(FMul(@, val).val,
                                     fraction_int(s.k, 1, new_max_bits).val).val],
             val, tolerance, new_max_bits)

\* exp, the series and the narrowing of its sum
exp_sum(val, precision, new_max_bits) ==
    with_max_bits(
        exp_loop([term |-> fraction_int(1, 1, new_max_bits).val,
                  sum |-> fraction_int(1, 1, new_max_bits).val, k |-> 1],
                 val,
                 fraction_big(from_u64(1), ShiftLeft(from_u64(1), precision + 1),
                              new_max_bits).val,
                 new_max_bits),
        Max(val.max_bits_, precision))

\* fraction::exp
fraction_exp(val, precision) ==
    Returned(exp_sum(val, precision, Max(val.max_bits_, precision) + guard_bits))

\* pow, the general path: exp(b * log(a)); log is called as log(a, precision),
\* its second parameter a fraction, so that precision is converted by
\* fraction(const uint64_t &max_bits) to a zero of that precision
pow_general(b, log_a, precision) ==
    IF log_a.thrown # "none" THEN log_a
    ELSE fraction_exp(FMul(b, log_a.val).val, precision)

\* pow, after the four special cases
pow_checked(a, b, precision) ==
    IF a.is_negative_ /\ ~bit_test(b.denominator_, 0) THEN Raised("domain_error")
    ELSE IF is_one(b.denominator_)
    THEN pow_integer(pow_integer_exponent(a, b.numerator_), b)
    ELSE pow_general(b, fraction_log(a, fraction_default(precision), UINT64_MAX),
                     precision)

\* fraction::pow(a, b), precision = max(a.max_bits_, b.max_bits_)
pow_at(a, b, precision) ==
    IF is_zero(a.numerator_)
    THEN IF b.is_negative_ \/ is_zero(b.numerator_) THEN Raised("domain_error")
         ELSE fraction_int(0, 1, precision)
    ELSE IF fraction_is_one(a)
    THEN IF a.is_negative_ THEN fraction_int(-1, 1, precision)
         ELSE fraction_int(1, 1, precision)
    ELSE IF fraction_is_zero(b) THEN fraction_int(1, 1, precision)
    ELSE IF fraction_is_one(b) THEN set_precision(a, precision)
    ELSE pow_checked(a, b, precision)

\* fraction::pow
fraction_pow(a, b) == pow_at(a, b, Max(a.max_bits_, b.max_bits_))

\* sqrt, the first estimate 2^(total_bits / 2)
sqrt_estimate(sqrt_bits, new_max_bits) ==
    IF sqrt_bits >= 0
    THEN Fraction(ShiftLeft(from_u64(1), sqrt_bits), from_u64(1), FALSE, new_max_bits)
    ELSE Fraction(from_u64(1), ShiftLeft(from_u64(1), -sqrt_bits), FALSE, new_max_bits)

\* sqrt, x = half * (x + (temp /= x))
sqrt_step(this, temp, half) ==
    FMul(half, FAdd(this, FDivAssign(temp, this).val).val).val

\* sqrt, error = x > x_prev ? x - x_prev : x_prev - x
sqrt_error(this, x_prev) ==
    IF FGreater(this, x_prev) THEN FSub(this, x_prev).val ELSE FSub(x_prev, this).val

\* the iteration cap of sqrt
sqrt_iterations == 100

RECURSIVE sqrt_loop(_, _, _, _, _)

\* sqrt, the convergence test of one turn
sqrt_turn(this, x_prev, i, temp, half, tolerance) ==
    IF FLess(sqrt_error(this, x_prev), tolerance) THEN Returned(this)
    ELSE sqrt_loop(this, i + 1, temp, half, tolerance)

\* sqrt, the loop for (i = 0;; i++)
sqrt_loop(this, i, temp, half, tolerance) ==
    IF i >= sqrt_iterations THEN Raised("runtime_error")
    ELSE sqrt_turn(sqrt_step(this, temp, half), this, i, temp, half, tolerance)

\* sqrt, x.max_bits_ = max(value.max_bits_, precision) when the loop ends
sqrt_narrowed(res, max_bits) ==
    IF res.thrown # "none" THEN res ELSE Returned(with_max_bits(res.val, max_bits))

\* sqrt, from the first estimate on
sqrt_newton(value, precision, total_bits, new_max_bits) ==
    sqrt_narrowed(
        sqrt_loop(sqrt_estimate(int_div(total_bits, 2), new_max_bits), 0,
                  with_max_bits(value, new_max_bits),
                  fraction_int(1, 2, new_max_bits).val,
                  fraction_big(from_u64(1),
                               Add(pow(from_u64(2), Min(value.max_bits_, precision)),
                                   from_u64(4)),
                               new_max_bits).val),
        Max(value.max_bits_, precision))

\* fraction::sqrt
fraction_sqrt(value, precision) ==
    IF value.is_negative_ THEN Raised("runtime_error")
    ELSE IF is_zero(value.numerator_)
    THEN fraction_int(0, 1, Max(value.max_bits_, precision))
    ELSE IF bits(value.numerator_) = bits(value.denominator_)
    THEN fraction_int(1, 1, Max(value.max_bits_, precision))
    ELSE sqrt_newton(value, precision,
                     bits(value.numerator_) - bits(value.denominator_),
                     Max(value.max_bits_, precision) + guard_bits)

\* ------------------------------------------------------------------------
\* SpecConstruct: one fraction is constructed, then its precision is set
\* ------------------------------------------------------------------------

\* the native integers a fraction is constructed from lie in -MaxTerm..MaxTerm
MaxTerm == 7

\* the gcd's bit gap plus one: the index of the top bit of the smallest odd
\* factor above the gap
gap_bits == bit_diff_threshold + 1

\* terms with a large odd common factor: 2 * 129, 2 * 129 + 1 and 3 * 129
LargeTerms == {2 * (Pow2(gap_bits) + 1), 2 * (Pow2(gap_bits) + 1) + 1,
               3 * (Pow2(gap_bits) + 1)}

Terms == ((-MaxTerm)..MaxTerm) \cup LargeTerms

\* the precisions a fraction is constructed with
Precisions == {1, gap_bits, 16}

\* the strings a fraction is constructed from
FractionTexts ==
    {<<"0">>, <<"-", "0">>, <<"-", "0", ".", "0">>, <<"-", "0", "e", "1">>,
     <<"1", ".", "5">>, <<"-", "1", ".", "5">>, <<"+", "2", "5">>,
     <<"1", "e", "2">>, <<"1", ".", "2", "e", "-", "1">>, <<"2", "E", "+", "1">>,
     <<".", "5">>, <<"-">>, <<>>, <<"1", "e">>, <<"1", "e", "-">>,
     <<"1", ".", "2", ".", "3">>, <<"1", "e", "2", "e", "3">>, <<"1", "x">>,
     <<"-", "1", "e", "-", "2", "-">>, <<"1", "e", "1", ".", "5">>,
     <<"7", "5", "3">>, <<"0", ".", "1", "2", "5">>,
     <<"1", "-", "2">>, <<"-", "1", "-", "2">>, <<"+", "-", "1">>,
     <<"1", ".", "-", "5">>, <<"1", "-", "e", "5">>}

\* the record of a construction from (numerator, denominator, max_bits)
Constructed(numerator, denominator, max_bits, res) ==
    [numerator |-> numerator, denominator |-> denominator, max_bits |-> max_bits,
     thrown |-> res.thrown, val |-> res.val]

\* the record of a construction from a string
ConstructedStr(str, max_bits, res) ==
    [str |-> str, max_bits |-> max_bits, thrown |-> res.thrown, val |-> res.val]

\* the record of set_precision(value) on the fraction a
PrecisionSet(a, value, res) ==
    [a |-> a, value |-> value, thrown |-> res.thrown, val |-> res.val]

InitConstruct ==
    /\ x = fraction_default(16)
    /\ y = fraction_default(16)
    /\ n = 0
    /\ op = "init"
    /\ out = NoResult

\* fraction x(numerator, denominator, max_bits), native integers
OpFractionInt ==
    /\ op = "init"
    /\ \E numerator \in Terms, denominator \in Terms, max_bits \in Precisions :
           out' = Constructed(numerator, denominator, max_bits,
                              fraction_int(numerator, denominator, max_bits))
    /\ x' = Assigned(x, out')
    /\ op' = "fraction(int, int)"
    /\ UNCHANGED <<y, n>>

\* fraction x(numerator, denominator, max_bits), big_uints
OpFractionBig ==
    /\ op = "init"
    /\ \E numerator \in 0..MaxTerm, denominator \in 0..MaxTerm, max_bits \in Precisions :
           out' = Constructed(numerator, denominator, max_bits,
                              fraction_big(from_u64(numerator), from_u64(denominator),
                                           max_bits))
    /\ x' = Assigned(x, out')
    /\ op' = "fraction(big_uint, big_uint)"
    /\ UNCHANGED <<y, n>>

\* fraction x(str, max_bits)
OpFractionStr ==
    /\ op = "init"
    /\ \E str \in FractionTexts, max_bits \in Precisions :
           out' = ConstructedStr(str, max_bits, fraction_str(str, max_bits))
    /\ x' = Assigned(x, out')
    /\ op' = "fraction(string)"
    /\ UNCHANGED <<y, n>>

\* x.set_precision(value) on the fraction just constructed
OpSetPrecision ==
    /\ op \in {"fraction(int, int)", "fraction(big_uint, big_uint)", "fraction(string)"}
    /\ out.thrown = "none"
    /\ \E value \in {0} \cup Precisions :
           out' = PrecisionSet(x, value, set_precision(x, value))
    /\ x' = out'.val
    /\ op' = "set_precision"
    /\ UNCHANGED <<y, n>>

NextConstruct ==
    \/ OpFractionInt
    \/ OpFractionBig
    \/ OpFractionStr
    \/ OpSetPrecision

SpecConstruct == InitConstruct /\ [][NextConstruct]_vars

\* ------------------------------------------------------------------------
\* SpecFraction: one call of a fraction entry point on a pair of fractions
\* ------------------------------------------------------------------------

\* the terms of the operands lie in -MaxOperandTerm..MaxOperandTerm
MaxOperandTerm == 3

\* operands outside the pattern: 1/6, 7/4, the negative zero of fraction(0, -1),
\* and two operands of another precision
ExtraFractions ==
    {fraction_int(1, 6, 16).val, fraction_int(7, 4, 16).val,
     fraction_int(0, -1, 16).val, fraction_int(-5, 2, gap_bits).val,
     fraction_int(4, 1, gap_bits).val}

FractionOperands ==
    {fraction_int(numerator, denominator, 16).val :
        numerator \in (-MaxOperandTerm)..MaxOperandTerm,
        denominator \in 1..MaxOperandTerm} \cup ExtraFractions

\* the precisions sqrt is called with
CallPrecisions == {0, 4}

\* the record of a call on (a, b) at a precision
OutcomeAt(a, b, precision, res) ==
    [a |-> a, b |-> b, precision |-> precision, thrown |-> res.thrown, val |-> res.val]

InitFraction ==
    /\ x \in FractionOperands
    /\ y \in FractionOperands
    /\ n = 0
    /\ op = "init"
    /\ out = NoResult

\* x + y
OpFAdd ==
    /\ op = "init"
    /\ out' = Outcome(x, y, FAdd(x, y))
    /\ op' = "fraction::operator+"
    /\ UNCHANGED <<x, y, n>>

\* x - y
OpFSub ==
    /\ op = "init"
    /\ out' = Outcome(x, y, FSub(x, y))
    /\ op' = "fraction::operator-"
    /\ UNCHANGED <<x, y, n>>

\* x * y
OpFMul ==
    /\ op = "init"
    /\ out' = Outcome(x, y, FMul(x, y))
    /\ op' = "fraction::operator*"
    /\ UNCHANGED <<x, y, n>>

\* x / y
OpFDiv ==
    /\ op = "init"
    /\ out' = Outcome(x, y, FDiv(x, y))
    /\ op' = "fraction::operator/"
    /\ UNCHANGED <<x, y, n>>

\* x += y
OpFAddAssign ==
    /\ op = "init"
    /\ out' = Outcome(x, y, FAddAssign(x, y))
    /\ x' = out'.val
    /\ op' = "fraction::operator+="
    /\ UNCHANGED <<y, n>>

\* x -= y
OpFSubAssign ==
    /\ op = "init"
    /\ out' = Outcome(x, y, FSubAssign(x, y))
    /\ x' = out'.val
    /\ op' = "fraction::operator-="
    /\ UNCHANGED <<y, n>>

\* x *= y
OpFMulAssign ==
    /\ op = "init"
    /\ out' = Outcome(x, y, FMulAssign(x, y))
    /\ x' = out'.val
    /\ op' = "fraction::operator*="
    /\ UNCHANGED <<y, n>>

\* x /= y
OpFDivAssign ==
    /\ op = "init"
    /\ out' = Outcome(x, y, FDivAssign(x, y))
    /\ x' = out'.val
    /\ op' = "fraction::operator/="
    /\ UNCHANGED <<y, n>>

\* x /= x
OpFDivAssignSelf ==
    /\ op = "init"
    /\ out' = Outcome(x, x, FDivAssignSelf(x))
    /\ x' = out'.val
    /\ op' = "fraction::operator/= (self)"
    /\ UNCHANGED <<y, n>>

\* x == y
OpFEqual ==
    /\ op = "init"
    /\ out' = Outcome(x, y, Returned(FEqual(x, y)))
    /\ op' = "fraction::operator=="
    /\ UNCHANGED <<x, y, n>>

\* x != y
OpFNotEqual ==
    /\ op = "init"
    /\ out' = Outcome(x, y, Returned(FNotEqual(x, y)))
    /\ op' = "fraction::operator!="
    /\ UNCHANGED <<x, y, n>>

\* x < y
OpFLess ==
    /\ op = "init"
    /\ out' = Outcome(x, y, Returned(FLess(x, y)))
    /\ op' = "fraction::operator<"
    /\ UNCHANGED <<x, y, n>>

\* x > y
OpFGreater ==
    /\ op = "init"
    /\ out' = Outcome(x, y, Returned(FGreater(x, y)))
    /\ op' = "fraction::operator>"
    /\ UNCHANGED <<x, y, n>>

\* x <= y
OpFLessEq ==
    /\ op = "init"
    /\ out' = Outcome(x, y, Returned(FLessEq(x, y)))
    /\ op' = "fraction::operator<="
    /\ UNCHANGED <<x, y, n>>

\* x >= y
OpFGreaterEq ==
    /\ op = "init"
    /\ out' = Outcome(x, y, Returned(FGreaterEq(x, y)))
    /\ op' = "fraction::operator>="
    /\ UNCHANGED <<x, y, n>>

NextFraction ==
    \/ OpFAdd
    \/ OpFSub
    \/ OpFMul
    \/ OpFDiv
    \/ OpFAddAssign
    \/ OpFSubAssign
    \/ OpFMulAssign
    \/ OpFDivAssign
    \/ OpFDivAssignSelf
    \/ OpFEqual
    \/ OpFNotEqual
    \/ OpFLess
    \/ OpFGreater
    \/ OpFLessEq
    \/ OpFGreaterEq

SpecFraction == InitFraction /\ [][NextFraction]_vars

\* ------------------------------------------------------------------------
\* SpecPow: one call of fraction::pow on a pair of fractions
\* ------------------------------------------------------------------------

\* fraction::pow(x, y)
OpFPow ==
    /\ op = "init"
    /\ out' = Outcome(x, y, fraction_pow(x, y))
    /\ op' = "fraction::pow"
    /\ UNCHANGED <<x, y, n>>

NextPow == OpFPow

SpecPow == InitFraction /\ [][NextPow]_vars

\* ------------------------------------------------------------------------
\* SpecSqrt: one call of fraction::sqrt on a fraction
\* ------------------------------------------------------------------------

\* fraction::sqrt(x, precision)
OpFSqrt ==
    /\ op = "init"
    /\ \E precision \in CallPrecisions :
           out' = OutcomeAt(x, y, precision, fraction_sqrt(x, precision))
    /\ op' = "fraction::sqrt"
    /\ UNCHANGED <<x, y, n>>

NextSqrt == OpFSqrt

SpecSqrt == InitFraction /\ [][NextSqrt]_vars
\* ------------------------------------------------------------------------
\* SpecNewton: division_newton_raphson(x, y, q, r), one loop pass at a time
\* ------------------------------------------------------------------------

\* the locals of division_newton_raphson once the early returns are passed
NewtonLocals(dividend, divisor, kbits) ==
    [a |-> dividend, b |-> divisor, kbits |-> kbits,
     twoB |-> ShiftLeft(ShiftLeft(from_u64(1), kbits), 1),
     xr |-> newton_x0(kbits, divisor), prev_x |-> from_u64(0),
     q0 |-> from_u64(0), val |-> from_u64(0), r |-> from_u64(0),
     corrections |-> 0, thrown |-> "none"]

\* the record of a call that left through one of the early returns
NewtonEarly(dividend, divisor, qr) ==
    [a |-> dividend, b |-> divisor, kbits |-> 0, twoB |-> from_u64(0),
     xr |-> from_u64(0), prev_x |-> from_u64(0),
     q0 |-> qr.q, val |-> qr.q, r |-> qr.r, corrections |-> 0, thrown |-> "none"]

\* the passes of the reciprocal loop are counted up to MaxPasses
MaxPasses == 32

\* the call takes one of the early returns: dividend < divisor, or both
\* operands of at most two limbs
newton_early(dividend, divisor) ==
    Less(dividend, divisor) \/ (blocks(dividend) <= 2 /\ blocks(divisor) <= 2)

\* the callers have dealt with a zero divisor
InitNewton ==
    /\ x \in Operands
    /\ y \in Operands \ {from_u64(0)}
    /\ n = 0
    /\ op = "init"
    /\ out = NoResult

\* the call returns before the iteration
OpNewtonEarly ==
    /\ op = "init"
    /\ newton_early(x, y)
    /\ out' = NewtonEarly(x, y, division_newton_raphson(x, y))
    /\ op' = "returned"
    /\ UNCHANGED <<x, y, n>>

\* kbits, B, twoB and x0 are set up
OpNewtonEnter ==
    /\ op = "init"
    /\ ~newton_early(x, y)
    /\ out' = NewtonLocals(x, y, newton_kbits(x))
    /\ op' = "reciprocal loop"
    /\ UNCHANGED <<x, y, n>>

\* one pass of do { prev_x = x; ...; x >>= kbits; } while (x != prev_x)
OpNewtonPass ==
    /\ op = "reciprocal loop"
    /\ out' = [out EXCEPT !.prev_x = out.xr,
                          !.xr = newton_step(out.xr, out.b, out.twoB, out.kbits)]
    /\ n' = Min(n + 1, MaxPasses)
    /\ op' = IF ~Equal(out'.xr, out'.prev_x) THEN "reciprocal loop" ELSE "converged"
    /\ UNCHANGED <<x, y>>

\* quotient = (dividend * x) >> kbits; remainder = dividend - quotient * divisor
OpNewtonQuotient ==
    /\ op = "converged"
    /\ out' = [out EXCEPT !.q0 = ShiftRight(Mul(out.a, out.xr), out.kbits),
                          !.val = ShiftRight(Mul(out.a, out.xr), out.kbits),
                          !.r = Sub(out.a, Mul(ShiftRight(Mul(out.a, out.xr), out.kbits),
                                               out.b))]
    /\ op' = "correction loop"
    /\ UNCHANGED <<x, y, n>>

\* one pass of while (remainder >= divisor) { ++quotient; remainder -= divisor; }
OpNewtonCorrect ==
    /\ op = "correction loop"
    /\ GreaterEq(out.r, out.b)
    /\ out' = [out EXCEPT !.val = Inc(out.val), !.r = SubAssign(out.r, out.b),
                          !.corrections = @ + 1]
    /\ UNCHANGED <<x, y, n, op>>

\* the correction loop's test fails and the call returns
OpNewtonReturn ==
    /\ op = "correction loop"
    /\ ~GreaterEq(out.r, out.b)
    /\ op' = "returned"
    /\ UNCHANGED <<x, y, n, out>>

NextNewton ==
    \/ OpNewtonEarly
    \/ OpNewtonEnter
    \/ OpNewtonPass
    \/ OpNewtonQuotient
    \/ OpNewtonCorrect
    \/ OpNewtonReturn

SpecNewton == InitNewton /\ [][NextNewton]_vars

\* ENABLED <<NextNewton>>_vars: the call has a next step at every position
\* but the last, and each step changes op, n or out
NewtonEnabled == op # "returned"

\* the call is one thread of control, a step that can be taken is taken:
\* weak fairness of NextNewton, with its ENABLED written as NewtonEnabled
SpecNewtonLive == SpecNewton /\ ([]<>~NewtonEnabled \/ []<><<NextNewton>>_vars)

\* ------------------------------------------------------------------------
\* bit_set, construction from a limb vector, and the bitwise operators
\* ------------------------------------------------------------------------

\* one bit of uint32_t | uint32_t, & and ^
bit_op(kind, i, j) ==
    IF kind = "|" THEN Max(i, j)
    ELSE IF kind = "&" THEN Min(i, j)
    ELSE (i + j) % 2

\* uint32_t | uint32_t, & and ^ on the lowest k bits of two limbs
RECURSIVE limb_op(_, _, _, _)
limb_op(kind, i, j, k) ==
    IF k = 0 THEN 0
    ELSE bit_op(kind, i % 2, j % 2) + 2 * limb_op(kind, i \div 2, j \div 2, k - 1)

\* ~(1 << (index % 32)) as a limb
bit_mask_inverted(index) == UINT32_MAX - Pow2(index % LimbBits)

\* big_uint::bit_set, for an index inside the limbs of d
bit_set(d, index, value) ==
    [d EXCEPT ![(index \div LimbBits) + 1] =
        IF value THEN limb_op("|", @, Pow2(index % LimbBits), LimbBits)
        ELSE limb_op("&", @, bit_mask_inverted(index), LimbBits)]

\* big_uint(const std::vector<uint32_t> &) and big_uint(std::vector<uint32_t> &&):
\* data_ is the vector
big_uint_vector(value) == value

\* data_.resize(size, 0) where size is not below the current size
resized(d, size) == d \o ToSeq([i \in 1..(size - Len(d)) |-> 0], size - Len(d))

\* other.data_[i]: inside other's limbs the limb, at or past other.data_.size()
\* whatever the memory behind the limbs holds
limb_at(other, i, stray) == IF i <= Len(other) THEN other[i] ELSE stray[i]

\* the loop of operator|=, operator&= and operator^= over the limbs of *this
\* after the resize, and the trim
bitwise_loop(kind, this, other, stray) ==
    trim(ToSeq([i \in 1..Len(this) |->
                   limb_op(kind, this[i], limb_at(other, i, stray), LimbBits)],
               Len(this)))

\* big_uint::operator|=
OrAssign(this, other, stray) ==
    bitwise_loop("|", resized(this, Max(Len(this), Len(other))), other, stray)

\* big_uint::operator&=
AndAssign(this, other, stray) ==
    bitwise_loop("&", resized(this, Max(Len(this), Len(other))), other, stray)

\* big_uint::operator^=
XorAssign(this, other, stray) ==
    bitwise_loop("^", resized(this, Max(Len(this), Len(other))), other, stray)

\* big_uint::operator|: result = big; result |= small
Or(a, b, stray) ==
    IF Len(a) > Len(b) THEN OrAssign(a, b, stray) ELSE OrAssign(b, a, stray)

\* big_uint::operator&
And(a, b, stray) ==
    IF Len(a) > Len(b) THEN AndAssign(a, b, stray) ELSE AndAssign(b, a, stray)

\* big_uint::operator^
Xor(a, b, stray) ==
    IF Len(a) > Len(b) THEN XorAssign(a, b, stray) ELSE XorAssign(b, a, stray)

\* ------------------------------------------------------------------------
\* SpecBits: one shift, bit_set or vector construction
\* ------------------------------------------------------------------------

\* the shift counts: none, inside a limb, whole limbs, both, and past the
\* longest operand
ShiftCounts == 0..(MaxBits + LimbBits + 1)

\* the limb vectors handed to the constructor
Vectors ==
    {<<>>, <<0>>, <<5>>, <<0, 0>>, <<5, 0>>, <<0, 5>>, <<1, 0, 0>>,
     <<UINT32_MAX, 1>>, <<0, 0, 0>>}

\* the record of a call on a with the count or index k
Shifted(a, k, res) == [a |-> a, k |-> k, thrown |-> res.thrown, val |-> res.val]

\* the record of bit_set(index, value) on a
BitWritten(a, index, value, res) ==
    [a |-> a, k |-> index, value |-> value, thrown |-> res.thrown, val |-> res.val]

InitBits ==
    /\ x \in Operands
    /\ y = from_u64(0)
    /\ n = 0
    /\ op = "init"
    /\ out = NoResult

\* r = x << k
OpShiftLeft ==
    /\ op = "init"
    /\ \E k \in ShiftCounts : out' = Shifted(x, k, Returned(ShiftLeft(x, k)))
    /\ op' = "operator<<"
    /\ UNCHANGED <<x, y, n>>

\* r = x >> k
OpShiftRight ==
    /\ op = "init"
    /\ \E k \in ShiftCounts : out' = Shifted(x, k, Returned(ShiftRight(x, k)))
    /\ op' = "operator>>"
    /\ UNCHANGED <<x, y, n>>

\* r = (x << k) >> k
OpShiftBack ==
    /\ op = "init"
    /\ \E k \in ShiftCounts :
           out' = Shifted(x, k, Returned(ShiftRight(ShiftLeft(x, k), k)))
    /\ op' = "(n << k) >> k"
    /\ UNCHANGED <<x, y, n>>

\* x.bit_set(index, value), for an index inside the limbs of x
OpBitSet ==
    /\ op = "init"
    /\ \E index \in 0..(Len(x) * LimbBits - 1), value \in BOOLEAN :
           out' = BitWritten(x, index, value, Returned(bit_set(x, index, value)))
    /\ x' = out'.val
    /\ op' = "bit_set"
    /\ UNCHANGED <<y, n>>

\* x = big_uint(value)
OpFromVector ==
    /\ op = "init"
    /\ is_zero(x)
    /\ \E value \in Vectors : out' = Shifted(value, 0, Returned(big_uint_vector(value)))
    /\ x' = out'.val
    /\ op' = "big_uint(vector)"
    /\ UNCHANGED <<y, n>>

NextBits ==
    \/ OpShiftLeft
    \/ OpShiftRight
    \/ OpShiftBack
    \/ OpBitSet
    \/ OpFromVector

SpecBits == InitBits /\ [][NextBits]_vars

\* ------------------------------------------------------------------------
\* SpecBitwise: one bitwise operator on a pair of operands
\* ------------------------------------------------------------------------

\* what a read past the end of a limb vector can return
StrayLimbs == {0, 1, UINT32_MAX}

\* the memory behind a limb vector, by limb index
StrayMemory == [1..MaxBlocks -> StrayLimbs]

\* the limb indices of other that a compound bitwise operator on (this,
\* other) reads at or past other.data_.size()
read_past(this, other) == (Len(other) + 1)..Len(this)

\* the record of a bitwise call that ran its loop on (this, other)
Bitwise(a, b, this, other, v) ==
    [a |-> a, b |-> b, thrown |-> "none", val |-> v, past |-> read_past(this, other)]

\* the record of a binary bitwise operator: the loop runs on (big, small)
BitwiseBinary(a, b, v) ==
    IF Len(a) > Len(b) THEN Bitwise(a, b, a, b, v) ELSE Bitwise(a, b, b, a, v)

\* x |= y
OpOrAssign ==
    /\ op = "init"
    /\ \E stray \in StrayMemory : out' = Bitwise(x, y, x, y, OrAssign(x, y, stray))
    /\ x' = out'.val
    /\ op' = "operator|="
    /\ UNCHANGED <<y, n>>

\* x &= y
OpAndAssign ==
    /\ op = "init"
    /\ \E stray \in StrayMemory : out' = Bitwise(x, y, x, y, AndAssign(x, y, stray))
    /\ x' = out'.val
    /\ op' = "operator&="
    /\ UNCHANGED <<y, n>>

\* x ^= y
OpXorAssign ==
    /\ op = "init"
    /\ \E stray \in StrayMemory : out' = Bitwise(x, y, x, y, XorAssign(x, y, stray))
    /\ x' = out'.val
    /\ op' = "operator^="
    /\ UNCHANGED <<y, n>>

\* r = x | y
OpOr ==
    /\ op = "init"
    /\ \E stray \in StrayMemory : out' = BitwiseBinary(x, y, Or(x, y, stray))
    /\ op' = "operator|"
    /\ UNCHANGED <<x, y, n>>

\* r = x & y
OpAnd ==
    /\ op = "init"
    /\ \E stray \in StrayMemory : out' = BitwiseBinary(x, y, And(x, y, stray))
    /\ op' = "operator&"
    /\ UNCHANGED <<x, y, n>>

\* r = x ^ y
OpXor ==
    /\ op = "init"
    /\ \E stray \in StrayMemory : out' = BitwiseBinary(x, y, Xor(x, y, stray))
    /\ op' = "operator^"
    /\ UNCHANGED <<x, y, n>>

NextBitwise ==
    \/ OpOrAssign
    \/ OpAndAssign
    \/ OpXorAssign
    \/ OpOr
    \/ OpAnd
    \/ OpXor

SpecBitwise == InitPairs /\ [][NextBitwise]_vars

\* ------------------------------------------------------------------------
\* properties
\* ------------------------------------------------------------------------

\* C1: for every dividend a and every divisor b # 0, operator/ (and /=),
\* operator% (and %=) and div return the floor quotient and the remainder of
\* a by b, normalized, on the native fast path and on the Newton-Raphson
\* path; for div, q * b + r == a
FloorDivision ==
    ~is_zero(y) =>
        /\ op \in {"operator/", "operator/=", "div"} =>
               /\ out.thrown = "none"
               /\ Normalized(out.val)
               /\ Value(out.val) = Value(out.a) \div Value(out.b)
        /\ op \in {"operator%", "operator%="} =>
               /\ out.thrown = "none"
               /\ Normalized(out.val)
               /\ Value(out.val) = Value(out.a) % Value(out.b)
        /\ op = "div" =>
               /\ Normalized(out.r)
               /\ Value(out.r) = Value(out.a) % Value(out.b)
               /\ Add(Mul(out.val, out.b), out.r) = out.a
        /\ op \in {"operator/=", "operator%="} => x = out.val

\* div took the Newton-Raphson path and returned a quotient above one and a
\* non-zero remainder
FloorDivisionOnNewtonPath ==
    /\ op = "div"
    /\ Len(out.a) > 2
    /\ Len(out.b) > 1
    /\ Greater(out.val, from_u64(1))
    /\ ~is_zero(out.r)

\* C2: operator/, operator/= and div raise division_by_zero for a zero
\* divisor, whatever the dividend (zero included), return no value and leave
\* the dividend alone; 0 / b is zero for b # 0
DivideByZeroRaises ==
    op \in {"operator/", "operator/=", "div"} =>
        /\ is_zero(out.b) =>
               /\ out.thrown = "division_by_zero"
               /\ out.val = <<>>
               /\ x = out.a
        /\ is_zero(out.a) /\ ~is_zero(out.b) =>
               /\ out.thrown = "none"
               /\ out.val = from_u64(0)

\* 0 /= 0 raised division_by_zero
ZeroByZeroRaised ==
    /\ op = "operator/="
    /\ is_zero(out.a)
    /\ is_zero(out.b)
    /\ out.thrown = "division_by_zero"

\* C3: operator% and operator%= raise division_by_zero for a zero divisor,
\* whatever the dividend
ModuloByZeroRaises ==
    op \in {"operator%", "operator%="} /\ is_zero(out.b) =>
        out.thrown = "division_by_zero"

\* C4: starting from normalized values, both values are normalized after
\* every sequence of +, -, *, /, %, ++, --, <<, >>, gcd, lcm, pow and parsing
AlwaysNormalized == Normalized(x) /\ Normalized(y)

\* the second operation of a sequence was a subtraction that took a
\* three-limb value down to one non-zero limb
SubtractionShrank ==
    /\ n > 1
    /\ op = "operator-"
    /\ Len(out.a) > 2
    /\ Len(x) = 1
    /\ ~is_zero(x)

\* C5: gcd(a, b) is the greatest common divisor of a and b: gcd(a, 0) == a,
\* gcd(0, b) == b, gcd(a, a) == a, and the result is the mathematical gcd
\* (it divides both, and the cofactors are coprime)
GcdIsGreatest ==
    op = "gcd" =>
        /\ is_zero(out.b) => out.val = out.a
        /\ is_zero(out.a) => out.val = out.b
        /\ out.a = out.b => out.val = out.a
        /\ Value(out.val) = NatGcd(Value(out.a), Value(out.b))

\* C6: multiply_default and multiply_karatsuba return the same limb
\* sequence, the exact product normalized, and so does operator*=, for
\* operands below, at and above the thresholds and of very different lengths
KaratsubaMatchesSchoolbook ==
    /\ op = "multiply_default" => out.schoolbook = Product(out.a, out.b)
    /\ op = "multiply_karatsuba" => out.karatsuba = out.schoolbook
    /\ op = "operator*=" => x = out.schoolbook

\* multiply_karatsuba ran on operands so long that its sub-products went
\* through operator*= into multiply_karatsuba again
KaratsubaRecursed ==
    /\ op = "multiply_karatsuba"
    /\ Len(out.a) > karatsuba_switch
    /\ Len(out.b) > karatsuba_switch
    /\ Len(out.karatsuba) = Len(out.a) + Len(out.b)

\* C7: for all a and all b # 0, division_newton_raphson returns the same
\* quotient and remainder as division_default
NewtonMatchesDefault ==
    op = "division_newton_raphson" =>
        [q |-> out.val, r |-> out.r] = division_default(out.a, out.b)

\* division_newton_raphson ran its iteration on two three-limb operands and
\* left a non-zero remainder
NewtonIterated ==
    /\ op = "division_newton_raphson"
    /\ Len(out.b) > 2
    /\ Greater(out.a, out.b)
    /\ ~is_zero(out.r)

\* C8: a - b, a -= b and --a give the exact difference when a >= b and the
\* canonical zero when a < b; a + b - b == a
SaturatingSubtraction ==
    /\ op \in {"operator-", "operator-=", "operator--"} =>
           /\ Normalized(out.val)
           /\ Value(out.val) = IF Value(out.a) >= Value(out.b)
                               THEN Value(out.a) - Value(out.b) ELSE 0
    /\ op \in {"operator-=", "operator--"} => x = out.val
    /\ op = "a+b-b" => out.val = out.a

\* a - b saturated: a three-limb a below b gave zero
SubtractionSaturated ==
    /\ op = "operator-"
    /\ Len(out.a) > 2
    /\ Less(out.a, out.b)
    /\ out.val = from_u64(0)

\* C9: for every n and every base in 2..36, to_string(base) returns a text
\* and parsing that text in the same base gives n back
RoundTrip ==
    /\ op = "to_string" /\ out.k \in 2..36 => out.thrown = "none"
    /\ op = "read back" => x = out.a

\* a value of more than two limbs came back from its base-36 text
RoundTripGeneric ==
    /\ op = "read back"
    /\ out.k = 36
    /\ Len(out.a) > 2
    /\ x = out.a

\* C10: bits() is the zero-based index of the most significant set bit (0 for
\* zero), one less than the number of characters of to_string(2): the value
\* parsed from "753" has bits() 9 and binary text "1011110001", ten characters
BitsIsTopBitIndex ==
    /\ op = "bits" /\ ~is_zero(out.a) =>
           /\ out.k \div LimbBits = Len(out.a) - 1
           /\ Pow2(out.k % LimbBits) <= out.a[Len(out.a)]
           /\ out.a[Len(out.a)] < 2 * Pow2(out.k % LimbBits)
    /\ op = "bits" /\ is_zero(out.a) => out.k = 0
    /\ op = "bits" /\ out.a = from_str(<<"7", "5", "3">>, 10) => out.k = 9
    /\ op = "to_string" /\ out.k = 2 =>
           /\ out.thrown = "none"
           /\ Len(out.str) = bits(out.a) + 1
    /\ op = "to_string" /\ out.k = 2 /\ out.a = from_str(<<"7", "5", "3">>, 10) =>
           out.str = <<"1", "0", "1", "1", "1", "1", "0", "0", "0", "1">>

\* the value parsed from "753" was printed in base 2
Printed753 ==
    /\ op = "to_string"
    /\ out.k = 2
    /\ out.a = from_str(<<"7", "5", "3">>, 10)
    /\ Len(out.str) = 10

\* C10 as stated: for every non-zero n, bits() is the number of characters of
\* to_string(2)
BitsIsBitLength ==
    op = "to_string" /\ out.k = 2 /\ ~is_zero(out.a) =>
        Len(out.str) = bits(out.a)


\* ------------------------------------------------------------------------
\* reference arithmetic on fractions
\* ------------------------------------------------------------------------

\* the index of the top set bit of a natural, 0 for 0 and 1
RECURSIVE TopBit(_)
TopBit(v) == IF v <= 1 THEN 0 ELSE 1 + TopBit(v \div 2)

\* the numerator of a fraction with its sign
SignedNumerator(f) ==
    IF f.is_negative_ THEN -Value(f.numerator_) ELSE Value(f.numerator_)

\* a fraction in canonical form: a non-zero denominator, coprime terms, and
\* zero as +0/1
CanonicalFraction(f) ==
    /\ ~is_zero(f.denominator_)
    /\ NatGcd(Value(f.numerator_), Value(f.denominator_)) = 1
    /\ is_zero(f.numerator_) => ~f.is_negative_

\* the names of the operations that return a fraction
ArithmeticOps ==
    {"fraction::operator+", "fraction::operator-", "fraction::operator*",
     "fraction::operator/", "fraction::operator+=", "fraction::operator-=",
     "fraction::operator*=", "fraction::operator/="}

ConstructionOps ==
    {"fraction(int, int)", "fraction(big_uint, big_uint)", "fraction(string)"}

\* the shift simplify applies to the raw terms i and j at the precision
\* max_bits: the excess of the shorter term's top bit index over max_bits,
\* and none when a term is 0 or 1 or the terms are equal
CapShift(i, j, max_bits) ==
    IF i <= 1 \/ j <= 1 \/ i = j THEN 0
    ELSE IF Min(TopBit(i), TopBit(j)) > max_bits
    THEN Min(TopBit(i), TopBit(j)) - max_bits
    ELSE 0

\* the shift by the excess of the longer term's bit length over max_bits
LongerShift(i, j, max_bits) ==
    IF Max(TopBit(i), TopBit(j)) + 1 > max_bits
    THEN Max(TopBit(i), TopBit(j)) + 1 - max_bits
    ELSE 0

\* i / j and the fraction f are the same rational
SameRatio(i, j, f) == Value(f.numerator_) * j = Value(f.denominator_) * i

\* ------------------------------------------------------------------------
\* properties of fraction
\* ------------------------------------------------------------------------

\* C11: after a construction or an arithmetic operation (+, -, *, / and the
\* compound forms) a fraction whose numerator is zero is the canonical zero:
\* its denominator is 1 and it is not negative, so that it compares equal
\* to fraction(0, 1)
ZeroIsCanonical ==
    (op \in ArithmeticOps \cup ConstructionOps /\ out.thrown = "none"
     /\ is_zero(out.val.numerator_)) =>
        /\ is_one(out.val.denominator_)
        /\ ~out.val.is_negative_
        /\ FEqual(out.val, fraction_int(0, 1, 16).val)

\* C12: no fraction with a zero denominator is observable: a construction
\* from (n, 0) raises division_by_zero, a division by a zero-valued fraction
\* raises division_by_zero, and a fraction that was returned has a non-zero
\* denominator
NoZeroDenominator ==
    /\ (op \in {"fraction(int, int)", "fraction(big_uint, big_uint)"}
        /\ out.denominator = 0) => out.thrown = "division_by_zero"
    /\ (op \in {"fraction::operator/", "fraction::operator/="}
        /\ is_zero(out.b.numerator_)) => out.thrown = "division_by_zero"
    /\ (op \in ArithmeticOps \cup ConstructionOps /\ out.thrown = "none") =>
           ~is_zero(out.val.denominator_)

\* C13: after a construction or a mutating arithmetic operation, numerator
\* and denominator are coprime whenever both exceed 1, whatever the size of
\* the common factor of the terms the operation started from
TermsCoprime ==
    (op \in ArithmeticOps \cup ConstructionOps /\ out.thrown = "none"
     /\ Value(out.val.numerator_) > 1 /\ Value(out.val.denominator_) > 1) =>
        NatGcd(Value(out.val.numerator_), Value(out.val.denominator_)) = 1

\* C14, as amended: when neither term is 0 or 1 and the terms differ,
\* simplify shifts both terms right by the excess of the SHORTER term's top
\* bit index (bits()) over max_bits, before the gcd reduction, and does not
\* shift when that index is within max_bits; a term equal to 1 or equal
\* terms are never shifted.  The constructed fraction is the ratio of the
\* shifted terms.
CapByShorterTerm ==
    (op \in {"fraction(int, int)", "fraction(big_uint, big_uint)"}
     /\ out.numerator # 0 /\ out.denominator # 0) =>
        /\ out.thrown = "none"
        /\ ~is_zero(out.val.denominator_)
        /\ SameRatio(abs(out.numerator)
                         \div Pow2(CapShift(abs(out.numerator), abs(out.denominator),
                                            out.max_bits)),
                     abs(out.denominator)
                         \div Pow2(CapShift(abs(out.numerator), abs(out.denominator),
                                            out.max_bits)),
                     out.val)

\* C14, witness: 6/4 at max_bits 1, both terms of top bit index 2, was
\* shifted by one bit to 3/2
CapShifted ==
    /\ op = "fraction(int, int)"
    /\ out.numerator = 6 /\ out.denominator = 4 /\ out.max_bits = 1
    /\ out.thrown = "none"
    /\ out.val.numerator_ = <<3>> /\ out.val.denominator_ = <<2>>

\* C14, as stated: whenever the larger of the two bit lengths exceeds
\* max_bits, both terms are shifted right by that excess before the gcd
\* reduction
CapByLongerTerm ==
    (op \in {"fraction(int, int)", "fraction(big_uint, big_uint)"}
     /\ out.numerator # 0 /\ out.denominator # 0) =>
        /\ out.thrown = "none"
        /\ SameRatio(abs(out.numerator)
                         \div Pow2(LongerShift(abs(out.numerator),
                                               abs(out.denominator), out.max_bits)),
                     abs(out.denominator)
                         \div Pow2(LongerShift(abs(out.numerator),
                                               abs(out.denominator), out.max_bits)),
                     out.val)

\* C15: simplify is idempotent: a fraction that simplify has produced (by a
\* construction, truncating or not) is left with the same numerator,
\* denominator and sign when set_precision runs simplify on it again
SimplifyIdempotent ==
    (op = "set_precision" /\ out.value < out.a.max_bits_) =>
        /\ out.thrown = "none"
        /\ out.val.numerator_ = out.a.numerator_
        /\ out.val.denominator_ = out.a.denominator_
        /\ out.val.is_negative_ = out.a.is_negative_

RelationalOperatorsOrder ==
    (CanonicalFraction(x) /\ CanonicalFraction(y) /\ out.thrown = "none") =>
        /\ op = "fraction::operator<" =>
               out.val = (SignedNumerator(x) * Value(y.denominator_)
                          < SignedNumerator(y) * Value(x.denominator_))
        /\ op = "fraction::operator>" =>
               out.val = (SignedNumerator(x) * Value(y.denominator_)
                          > SignedNumerator(y) * Value(x.denominator_))
        /\ op = "fraction::operator<=" =>
               out.val = (SignedNumerator(x) * Value(y.denominator_)
                          <= SignedNumerator(y) * Value(x.denominator_))
        /\ op = "fraction::operator>=" =>
               out.val = (SignedNumerator(x) * Value(y.denominator_)
                          >= SignedNumerator(y) * Value(x.denominator_))
        /\ op = "fraction::operator==" =>
               out.val = (SignedNumerator(x) * Value(y.denominator_)
                          = SignedNumerator(y) * Value(x.denominator_))
        /\ op = "fraction::operator!=" =>
               out.val = (SignedNumerator(x) * Value(y.denominator_)
                          # SignedNumerator(y) * Value(x.denominator_))

\* C18: for a non-zero fraction a and a whole-number exponent b of any sign,
\* pow(a, b) is a multiplied by itself |b| times, or the reciprocal of that
\* for a negative b, with the sign of the power: negative only for a
\* negative a and an odd |b|
PowWholeExponent ==
    (op = "fraction::pow" /\ ~is_zero(out.a.numerator_)
     /\ CanonicalFraction(out.a) /\ is_one(out.b.denominator_)) =>
        /\ out.thrown = "none"
        /\ IF out.b.is_negative_
           THEN Value(out.val.numerator_)
                    * IPow(Value(out.a.numerator_), Value(out.b.numerator_))
                = Value(out.val.denominator_)
                    * IPow(Value(out.a.denominator_), Value(out.b.numerator_))
           ELSE Value(out.val.numerator_)
                    * IPow(Value(out.a.denominator_), Value(out.b.numerator_))
                = Value(out.val.denominator_)
                    * IPow(Value(out.a.numerator_), Value(out.b.numerator_))
        /\ out.val.is_negative_
               = (out.a.is_negative_ /\ Value(out.b.numerator_) % 2 = 1)

\* C19: for a positive fraction a # 1 and an exponent b that is not a whole
\* number, pow(a, b) returns a value at the precision max(a.max_bits,
\* b.max_bits) and raises nothing; pow raises a domain error only for a zero
\* base with a non-positive exponent and for a negative base with an
\* even-denominator exponent
PowFractionalExponent ==
    op = "fraction::pow" =>
        /\ (~out.a.is_negative_ /\ ~is_zero(out.a.numerator_)
            /\ ~fraction_is_one(out.a) /\ Value(out.b.denominator_) > 1) =>
               /\ out.thrown = "none"
               /\ out.val.max_bits_ = Max(out.a.max_bits_, out.b.max_bits_)
        /\ out.thrown = "domain_error" =>
               \/ /\ is_zero(out.a.numerator_)
                  /\ out.b.is_negative_ \/ is_zero(out.b.numerator_)
               \/ /\ out.a.is_negative_
                  /\ Value(out.b.denominator_) % 2 = 0

\* the square of the limb sequence d
Squared(d) == Mul(d, d)

\* r - 1/t <= sqrt(v) <= r + 1/t for the fractions r >= 0 and v >= 0 and the
\* limb sequence t, on the squares and by cross multiplication: the lower
\* bound is (r - 1/t)^2 <= v when r >= 1/t, and nothing when r < 1/t
WithinTolerance(r, v, t) ==
    /\ GreaterEq(Mul(r.numerator_, t), r.denominator_) =>
           LessEq(Mul(v.denominator_,
                      Squared(Sub(Mul(r.numerator_, t), r.denominator_))),
                  Mul(v.numerator_, Squared(Mul(r.denominator_, t))))
    /\ LessEq(Mul(v.numerator_, Squared(Mul(r.denominator_, t))),
              Mul(v.denominator_,
                  Squared(Add(Mul(r.numerator_, t), r.denominator_))))

\* C20: for a non-negative fraction v and every precision, sqrt(v, precision)
\* returns r >= 0 within the tolerance t = 1 / (2^min(v.max_bits, precision)
\* + 4) of the square root, (r - t)^2 <= v <= (r + t)^2, also when numerator
\* and denominator of v have the same top bit index
SqrtWithinTolerance ==
    (op = "fraction::sqrt" /\ ~out.a.is_negative_) =>
        /\ out.thrown = "none"
        /\ ~out.val.is_negative_
        /\ WithinTolerance(out.val, out.a,
                           from_u64(Pow2(Min(out.a.max_bits_, out.precision)) + 4))


\* ------------------------------------------------------------------------
\* the grammar of fraction strings: [+-]?d*.?d*(e[+-]?d+)?
\* ------------------------------------------------------------------------

AllDigits(str) == \A i \in 1..Len(str) : str[i] \in digit_chars

\* str without its leading sign
Unsigned(str) ==
    IF Len(str) > 0 /\ str[1] \in {"+", "-"} THEN Tail(str) ELSE str

\* d*.?d*
IsMantissa(str) ==
    \E k \in 0..Len(str) :
        /\ AllDigits(SubSeq(str, 1, k))
        /\ \/ k = Len(str)
           \/ str[k + 1] = "." /\ AllDigits(SubSeq(str, k + 2, Len(str)))

\* [+-]?d+
IsExponent(str) == Len(Unsigned(str)) > 0 /\ AllDigits(Unsigned(str))

\* d*.?d*(e[+-]?d+)?, the exponent marker in either case
IsNumber(str) ==
    \/ IsMantissa(str)
    \/ \E k \in 1..Len(str) :
           /\ str[k] \in {"e", "E"}
           /\ IsMantissa(SubSeq(str, 1, k - 1))
           /\ IsExponent(SubSeq(str, k + 1, Len(str)))

WellFormed(str) == IsNumber(Unsigned(str))

\* ------------------------------------------------------------------------
\* further properties of fraction
\* ------------------------------------------------------------------------

\* C21: the string constructor raises invalid_argument for every string
\* outside the grammar [+-]?d*.?d*(e[+-]?d+)?; a sign that is neither the
\* first character nor directly after the exponent marker, or a decimal
\* point inside the exponent, is never parsed as some value
MalformedStringsRejected ==
    (op = "fraction(string)" /\ ~WellFormed(out.str)) =>
        out.thrown = "invalid_argument"

\* C22: for every operation on two fractions a and b (+, -, *, / and the
\* compound forms, and pow on every path) the max_bits of the result is
\* max(a.max_bits, b.max_bits)
ResultPrecisionIsMax ==
    (op \in ArithmeticOps \cup {"fraction::pow"} /\ out.thrown = "none") =>
        out.val.max_bits_ = Max(out.a.max_bits_, out.b.max_bits_)

\* C29: operator/= is alias-safe: for every non-zero fraction a, a /= a
\* leaves a equal to 1/1, as dividing a by a separate copy of equal value does
DivAssignAliasSafe ==
    (op = "fraction::operator/= (self)" /\ ~is_zero(out.a.numerator_)
     /\ ~is_zero(out.a.denominator_)) =>
        /\ out.thrown = "none"
        /\ is_one(out.val.numerator_) /\ is_one(out.val.denominator_)
        /\ ~out.val.is_negative_
        /\ out.val = FDivAssign(out.a, out.a).val

\* C30: after set_precision(v) with v below the current max_bits, max_bits
\* is v and the terms are truncated under the new bound: the state is the one
\* simplify gives when max_bits is already v
SetPrecisionTruncates ==
    (op = "set_precision" /\ out.thrown = "none" /\ out.value < out.a.max_bits_) =>
        /\ out.val.max_bits_ = out.value
        /\ out.val = simplify([out.a EXCEPT !.max_bits_ = out.value]).val

\* the characters of the digits below base
DigitsBelow(base) == {base_chars[i] : i \in 1..base}

\* C27: for every base in 2..36 and every n, to_string(base) is the non-empty
\* canonical numeral of n: "0" for zero, and otherwise digits of the base
\* with no leading zero
CanonicalNumeral ==
    (op = "to_string" /\ out.k \in 2..36) =>
        /\ out.thrown = "none"
        /\ Len(out.str) >= 1
        /\ \A i \in 1..Len(out.str) : out.str[i] \in DigitsBelow(out.k)
        /\ is_zero(out.a) => out.str = <<"0">>
        /\ ~is_zero(out.a) => out.str[1] # "0"

\* C24: for every a >= b > 0 on the Newton-Raphson path the reciprocal
\* iteration, started at x0 and repeated until x equals its previous value,
\* reaches a fixed point after finitely many passes, and the call returns
NewtonTerminates ==
    /\ (op = "reciprocal loop") ~> (op = "converged" /\ Equal(out.xr, out.prev_x))
    /\ <>(op = "returned")

\* the iteration stopped after more than two passes, at a reciprocal that is
\* a fixed point of the step
NewtonConverged ==
    /\ op = "converged"
    /\ n > 2
    /\ newton_step(out.xr, out.b, out.twoB, out.kbits) = out.xr

\* C25: for every a >= b > 0 the candidate quotient q0 = (a * x) >> kbits
\* never exceeds floor(a / b) and is at most 2 below it, so the correction
\* loop runs at most 2 passes
CorrectionAtMostTwice ==
    (op \in {"correction loop", "returned"} /\ out.kbits # 0) =>
        /\ Value(out.q0) <= Value(out.a) \div Value(out.b)
        /\ Value(out.q0) + 2 >= Value(out.a) \div Value(out.b)
        /\ out.corrections <= 2

\* bit i of the value of d
BitOf(d, i) ==
    IF i < 0 \/ i >= Len(d) * LimbBits THEN 0
    ELSE (d[(i \div LimbBits) + 1] \div Pow2(i % LimbBits)) % 2

\* C23: for every n and shift count k, n << k is n * 2^k (bit i of the
\* result is bit i - k of n) and n >> k is floor(n / 2^k), zero when k exceeds
\* the bit-length of n, both normalized; hence (n << k) >> k = n
ShiftsScaleByPowersOfTwo ==
    /\ op = "operator<<" =>
           /\ Normalized(out.val)
           /\ \A i \in 0..((Len(out.a) + 1) * LimbBits + out.k) :
                  BitOf(out.val, i) = BitOf(out.a, i - out.k)
    /\ op = "operator>>" =>
           /\ Normalized(out.val)
           /\ out.k > bits(out.a) => is_zero(out.val)
           /\ out.k <= bits(out.a) => Value(out.val) = Value(out.a) \div Pow2(out.k)
    /\ op = "(n << k) >> k" => out.val = out.a

\* a value of two or more limbs was shifted left by whole limbs and a part
\* of a limb, and its top bits moved into a limb of their own
ShiftedAcrossLimbs ==
    /\ op = "operator<<"
    /\ Len(out.a) >= 2
    /\ out.k \div LimbBits >= 1
    /\ out.k % LimbBits # 0
    /\ Len(out.val) = Len(out.a) + (out.k \div LimbBits) + 1

\* limb i of d, zero past its last limb
BitField(d, i) == IF i <= Len(d) THEN d[i] ELSE 0

\* the limb-wise operation on a and b, the shorter one zero-extended
ZeroExtended(kind, a, b) ==
    trim(ToSeq([i \in 1..Max(Len(a), Len(b)) |->
                   limb_op(kind, BitField(a, i), BitField(b, i), LimbBits)],
               Max(Len(a), Len(b))))

\* C26: for all normalized a and b, a | b, a & b, a ^ b and |=, &=, ^= are
\* the limb-wise operation with the shorter operand zero-extended, and no
\* limb at or past an operand's limb count is read
BitwiseZeroExtends ==
    /\ op \in {"operator|", "operator|="} => out.val = ZeroExtended("|", out.a, out.b)
    /\ op \in {"operator&", "operator&="} => out.val = ZeroExtended("&", out.a, out.b)
    /\ op \in {"operator^", "operator^="} => out.val = ZeroExtended("^", out.a, out.b)
    /\ op \in {"operator|", "operator|=", "operator&", "operator&=",
               "operator^", "operator^="} => out.past = {}

\* C28: after bit_set(i, false) and after construction from a limb vector,
\* also an empty one or one with leading zero limbs, the big_uint is
\* normalized and is_zero() tells whether its value is zero
MutatorsKeepNormalized ==
    op \in {"bit_set", "big_uint(vector)"} =>
        /\ Normalized(out.val)
        /\ is_zero(out.val) <=> (Value(out.val) = 0)
====
